---- MODULE Spec2Model ----
(***************************************************************************)
(* Verification model of redditgram's aggregation pipeline.                *)
(*                                                                         *)
(*   Spec           the page component (Home): fetchInitialPosts,          *)
(*                  loadMorePosts and performFetch with its response cache *)
(*   SpecInterleave interleavePosts as a pure function                     *)
(*   SpecRate       InMemoryRateLimiter.check under a clock                *)
(*   SpecRoute      the GET /api/reddit handler                            *)
(*   SpecCache      EnhancedCache under a clock                            *)
(*   SpecMedia      extractMediaUrls and the post mapping of GET and       *)
(*                  getPosts as pure functions of the raw post             *)
(*   SpecChannels   the page with long channel lists, up to the issue of   *)
(*                  a call's requests                                      *)
(*   SpecSession    the page where every request settles and every         *)
(*                  continuation runs (weak fairness)                      *)
(*   SpecPageTsx    the page of app/page.tsx, which has no response cache  *)
(*   SpecPageClock  the page under a clock                                 *)
(*   SpecKV         KVRateLimiter.check, its store operations interleaved  *)
(*                  and failing                                            *)
(***************************************************************************)
EXTENDS Integers, Sequences, FiniteSets, TLC

VARIABLES
    \* ---- Home component state (useState / useRef) ----
    subredditInput,   \* parseSubreddits(subredditInput): the requested channel list
    sortType,         \* 'hot' | 'top'
    timeFrame,        \* 'day' | 'week'
    posts,            \* the displayed post list
    error,            \* error message kind, "none" = null
    isLoading,
    hasMore,
    fetchInitiated,
    afterTokens,      \* channel -> cursor | Null | Undef (no entry)
    apiCache,         \* Map<CacheKey, CachedRedditResponse>
    call,             \* the performFetch call in flight (its arguments and promises)
    lastResult,       \* outcome of the last performFetch that ended
    \* ---- interleavePosts evaluation ----
    ilIn,             \* groupedPosts argument
    ilOut,            \* value returned
    \* ---- rate limiter (InMemoryRateLimiter.store) and clock ----
    now,              \* Date.now()
    store,            \* identity -> {count, resetTime} | NoEntry
    lastCheck,        \* last check: its arguments, the window before and after, the result
    windowLog,        \* identity -> the checks made since its window opened
    \* ---- GET /api/reddit ----
    req,              \* request id -> position in GET, params, calls made, response
    kvToken,          \* kv 'reddit_access_token': the token and when its TTL ends
    envValid,         \* whether process.env passes envSchema
    served,           \* number of requests that have arrived
    \* ---- EnhancedCache ----
    ecache,           \* Map<string, CacheEntry>, its entries in insertion order (the
                      \* fields timestamp and accessCount, read only by getStats and
                      \* the log, are left out)
    written,          \* key -> the value a set stored and the instant its ttl ends,
                      \* while that instant has not passed and no delete of the key
                      \* and no set that had to make room has come since
    lastOp,           \* the get or has just made at this instant: its key, what the
                      \* map held for the key, and the value returned
    \* ---- post mapping (extractMediaUrls and the per-child map) ----
    child,            \* child.data of a listing: the raw post
    mapped,           \* what the map callback returned for it, and in which file
    \* ---- KVRateLimiter ----
    kvStore,          \* the KV store: key -> {count, resetTime} and the instant its
                      \* px ends
    kvChecks,         \* check id -> position in KVRateLimiter.check, what it read,
                      \* what it is to write, its result
    kvLog             \* the checks begun, and per resetTime the checks allowed

vars == << subredditInput, sortType, timeFrame, posts, error, isLoading, hasMore,
           fetchInitiated, afterTokens, apiCache, call, lastResult,
           ilIn, ilOut, now, store, lastCheck, windowLog, req, kvToken, envValid, served,
           ecache, written, lastOp, child, mapped, kvStore, kvChecks, kvLog >>

pageVars == << subredditInput, sortType, timeFrame, posts, error, isLoading, hasMore,
               fetchInitiated, afterTokens, apiCache, call, lastResult >>
ilVars == << ilIn, ilOut >>
rateVars == << now, store, lastCheck, windowLog >>
routeVars == << req, kvToken, envValid, served >>
cacheVars == << ecache, written, lastOp >>
mediaVars == << child, mapped >>
kvVars == << kvStore, kvChecks, kvLog >>
notPageVars == << ilVars, rateVars, routeVars, cacheVars, mediaVars, kvVars >>

-----------------------------------------------------------------------------
(* Bounds *)

\* cursors are the tokens 1..MaxCursor; the upstream has no page after MaxCursor
MaxCursor == 1
\* a listing page of a channel that has posts holds MaxPagePosts of them
MaxPagePosts == 1
\* rateLimitConfigs.reddit, scaled down from 60 requests per 3,600,000 ms
RedditMaxRequests == 2
RedditWindowMs == 2
\* the clock runs from 0 to MaxTime
MaxTime == 5
\* GET /api/reddit serves at most MaxServed requests
MaxServed == 3
\* interleavePosts is applied to at most MaxGroups lists of at most MaxGroupLen posts
MaxGroups == 3
MaxGroupLen == 2
\* EnhancedCache: options.maxSize and options.defaultTTL, scaled down from 100
\* entries and 300,000 ms; set is called without ttl or with MaxTtl; the cache's
\* clock runs from 0 to MaxCacheTime
MaxSize == 2
DefaultTTL == 2
MaxTtl == 1
MaxCacheTime == 2
\* checks begun at the KV rate limiter
MaxKvChecks == 3
\* cap on the clock of the KV rate limiter
MaxKvTime == 3

-----------------------------------------------------------------------------
(* Values *)

\* a cursor-map key that is not set (JavaScript undefined)
Undef == -1
\* the cursor null: no further pages
Null == 0
Tokens == 1..MaxCursor
CursorValues == {Undef, Null} \cup Tokens

\* channel names accepted by isValidSubreddit, and one that is not
ValidNames == {"a", "b", "c", "d", "e", "f", "g", "h", "i", "j", "k"}
Names == ValidNames \cup {"x!"}

isValidSubreddit(subreddit) == subreddit \in ValidNames

SeqToSet(s) == {s[i] : i \in DOMAIN s}

\* the channel lists the user types (each of distinct names): none, three
\* channels, two of them, and a list holding an invalid name
Inputs == {<<>>, <<"b", "c", "a">>, <<"c", "a">>, <<"a", "x!">>}

SortTypes == {"hot", "top"}
TimeFrames == {"day", "week"}

EmptyTokens == [n \in Names |-> Undef]
NoCall == [kind |-> "none"]
\* the query of /api/reddit; "null" is a parameter that is not given
NoQuery == [subreddit |-> "null", sortType |-> "null", timeFrame |-> "null",
            after |-> "null", limit |-> 0]
NoResult == [outcome |-> "none"]

-----------------------------------------------------------------------------
(* Cache key *)

\* `${sub}::${sort}::${timeKey}::${afterKey}`; time and after are Undef when not given
generateCacheKey(sub, sort, time, after) ==
    LET timeKey == IF sort = "top" THEN (IF time = "undefined" THEN "all" ELSE time)
                   ELSE "hot"
        afterKey == IF after \in {Undef, Null} THEN "initial" ELSE "t" \o ToString(after)
    IN  sub \o "::" \o sort \o "::" \o timeKey \o "::" \o afterKey

\* currentSortType === 'top' ? currentTimeFrame : undefined
TimeArg(sort, time) == IF sort = "top" THEN time ELSE "undefined"

\* currentAfterTokens[sub] ?? undefined
AfterParam(tokens, sub) == IF tokens[sub] \in {Undef, Null} THEN Undef ELSE tokens[sub]

CacheHas(cache, key) == key \in DOMAIN cache
CacheSet(cache, key, value) ==
    [k \in DOMAIN cache \cup {key} |-> IF k = key THEN value ELSE cache[k]]
CacheDelete(cache, key) == [k \in DOMAIN cache \ {key} |-> cache[k]]

-----------------------------------------------------------------------------
(* interleavePosts *)

RECURSIVE MaxLength(_)
\* Math.max(...groupedPosts.map(group => group.length))
MaxLength(groupedPosts) ==
    IF groupedPosts = <<>> THEN 0
    ELSE LET m == MaxLength(Tail(groupedPosts))
             h == Len(Head(groupedPosts))
         IN  IF h > m THEN h ELSE m

RECURSIVE InterleaveLoop(_, _, _, _)
\* the two nested for loops: j over rounds, i over groups; (j, i) is the next
\* pair to visit and interleaved the list built so far
InterleaveLoop(groupedPosts, j, i, interleaved) ==
    IF j > MaxLength(groupedPosts) THEN interleaved
    ELSE IF i > Len(groupedPosts) THEN InterleaveLoop(groupedPosts, j + 1, 1, interleaved)
    ELSE InterleaveLoop(groupedPosts, j, i + 1,
            IF j <= Len(groupedPosts[i])
            THEN Append(interleaved, groupedPosts[i][j])
            ELSE interleaved)

RECURSIVE ConcatGroups(_)
\* mutant: the loops nested the other way round (groups outside, rounds inside),
\* which concatenates the lists
ConcatGroups(groupedPosts) ==
    IF groupedPosts = <<>> THEN <<>>
    ELSE Head(groupedPosts) \o ConcatGroups(Tail(groupedPosts))

interleavePosts(groupedPosts) ==
    IF Len(groupedPosts) = 0 THEN <<>>
    ELSE InterleaveLoop(groupedPosts, 1, 1, <<>>)

-----------------------------------------------------------------------------
(* performFetch *)

\* what getPosts(sub, sort, {after}) can resolve to: the posts of that page (the
\* channel "c" has none) and the next cursor (the following token, or null)
PageSize(sub) == IF sub = "c" THEN 0 ELSE MaxPagePosts
PagePosts(sub, after) ==
    [k \in 1..PageSize(sub) |-> [sub |-> sub, after |-> after, idx |-> k]]
NextCursors(after) ==
    LET page == IF after = Undef THEN 0 ELSE after
    IN  {Null} \cup (IF page < MaxCursor THEN {page + 1} ELSE {})

\* getPosts builds the query of its request to /api/reddit: timeFrame only for
\* 'top', after only when given, limit POSTS_PER_LOAD
GetPostsRequest(sub, sort, time, after) ==
    [subreddit |-> sub, sortType |-> sort,
     timeFrame |-> IF sort = "top" /\ time # "undefined" THEN time ELSE "null",
     after |-> IF after = Undef THEN "null" ELSE "t" \o ToString(after),
     limit |-> 20]

\* mutant: the cache is not consulted, getPosts is called for every channel
IssueFetchAlways(cache, sub, sort, time, tokens) ==
    LET afterParam == AfterParam(tokens, sub)
        cacheKey == generateCacheKey(sub, sort, TimeArg(sort, time), afterParam)
    IN  [status |-> "pending", sub |-> sub, param |-> afterParam, key |-> cacheKey,
         hit |-> FALSE, posts |-> <<>>, after |-> Null,
         request |-> GetPostsRequest(sub, sort, TimeArg(sort, time), afterParam)]

\* one iteration of the for loop: the promise pushed for sub, and the request
\* getPosts sends for it (none on a cache hit)
IssueFetch(cache, sub, sort, time, tokens) ==
    LET afterParam == AfterParam(tokens, sub)
        cacheKey == generateCacheKey(sub, sort, TimeArg(sort, time), afterParam)
    IN  IF CacheHas(cache, cacheKey)
        THEN [status |-> "fulfilled", sub |-> sub, param |-> afterParam, key |-> cacheKey,
              hit |-> TRUE, posts |-> cache[cacheKey].posts, after |-> cache[cacheKey].after,
              request |-> NoQuery]
        ELSE [status |-> "pending", sub |-> sub, param |-> afterParam, key |-> cacheKey,
              hit |-> FALSE, posts |-> <<>>, after |-> Null,
              request |-> GetPostsRequest(sub, sort, TimeArg(sort, time), afterParam)]

\* the for loop over subredditsToFetch: fetchPromises, in request order
FetchPromises(cache, subs, sort, time, tokens) ==
    [i \in 1..Len(subs) |-> IssueFetch(cache, subs[i], sort, time, tokens)]

IsFulfilled(p) == p.status = "fulfilled"
IsRejected(p) == p.status = "rejected"
IsPending(p) == p.status = "pending"

\* mutant: Promise.all in place of Promise.allSettled, which resumes at the first
\* rejection
AllSettledFailFast(promises) ==
    \/ \A i \in DOMAIN promises : ~IsPending(promises[i])
    \/ \E i \in DOMAIN promises : IsRejected(promises[i])

\* await Promise.allSettled(fetchPromises) resumes once no promise is pending
AllSettled(promises) == \A i \in DOMAIN promises : ~IsPending(promises[i])

\* updatedAfterTokens[sub] = currentAfterTokens[sub] ?? null
FailedCursor(tokens, sub) == IF tokens[sub] = Undef THEN Null ELSE tokens[sub]

\* results.forEach: the cursor recorded for each requested channel
UpdatedAfterTokens(subs, promises, tokens) ==
    [n \in Names |->
        IF \E i \in DOMAIN subs : subs[i] = n
        THEN LET i == CHOOSE k \in DOMAIN subs :
                        subs[k] = n /\ \A m \in DOMAIN subs : subs[m] = n => m <= k
             IN  IF IsFulfilled(promises[i]) THEN promises[i].after
                 ELSE FailedCursor(tokens, n)
        ELSE Undef]

SuccessfulResults(promises) == SelectSeq(promises, IsFulfilled)

\* mutant: the all-failed throw is missing
AllFailedNeverThrown(promises) == FALSE

\* overallError && successfulResults.length === 0
AllFailed(promises) ==
    /\ \E i \in DOMAIN promises : IsRejected(promises[i])
    /\ Len(SuccessfulResults(promises)) = 0

\* else if (overallError) toast(...)
FetchWarning(promises) ==
    /\ \E i \in DOMAIN promises : IsRejected(promises[i])
    /\ ~AllFailed(promises)

\* mutant: the posts of every result, rejected ones included, are mapped
GroupedPostsUnfiltered(promises) == [i \in DOMAIN promises |-> promises[i].posts]

\* successfulResults.map(res => res.posts)
GroupedPosts(promises) ==
    LET ok == SuccessfulResults(promises)
    IN  [i \in 1..Len(ok) |-> ok[i].posts]

\* mutant: every in place of some
AnyHasMoreEvery(updated) == \A n \in Names : updated[n] # Undef => updated[n] # Null

\* Object.values(updatedAfterTokens).some(token => token !== null)
AnyHasMore(updated) == \E n \in Names : updated[n] # Undef /\ updated[n] # Null

\* {...currentAfterTokens, ...updatedAfterTokens}
FinalUpdatedTokens(tokens, updated) ==
    [n \in Names |-> IF updated[n] # Undef THEN updated[n] ELSE tokens[n]]

\* the value performFetch settles with, given the settled promises
PerformFetchResult(kind, subs, tokens, promises) ==
    LET updated == UpdatedAfterTokens(subs, promises, tokens)
    IN  IF AllFailed(promises)
        THEN [outcome |-> "threw", kind |-> kind, subs |-> subs, tokens |-> tokens,
              promises |-> promises, groupedPosts |-> <<>>,
              updatedAfterTokens |-> EmptyTokens, anyHasMore |-> FALSE, warned |-> FALSE]
        ELSE [outcome |-> "returned", kind |-> kind, subs |-> subs, tokens |-> tokens,
              promises |-> promises, groupedPosts |-> GroupedPosts(promises),
              updatedAfterTokens |-> FinalUpdatedTokens(tokens, updated),
              anyHasMore |-> AnyHasMore(updated), warned |-> FetchWarning(promises)]

\* if (!subredditsToFetch.every(isValidSubreddit)) throw new Error(...)
InvalidNameResult(kind, subs, tokens) ==
    [outcome |-> "threw", kind |-> kind, subs |-> subs, tokens |-> tokens,
     promises |-> <<>>, groupedPosts |-> <<>>,
     updatedAfterTokens |-> EmptyTokens, anyHasMore |-> FALSE, warned |-> FALSE]


-----------------------------------------------------------------------------
(* Home component: handlers *)

InitPage ==
    /\ subredditInput = <<>>
    /\ sortType = "hot"
    /\ timeFrame = "day"
    /\ posts = <<>>
    /\ error = "none"
    /\ isLoading = FALSE
    /\ hasMore = TRUE
    /\ fetchInitiated = FALSE
    /\ afterTokens = EmptyTokens
    /\ apiCache = <<>>
    /\ call = NoCall
    /\ lastResult = NoResult

\* onChange of the input field
SetSubredditInput(l) ==
    /\ l # subredditInput
    /\ subredditInput' = l
    /\ UNCHANGED << sortType, timeFrame, posts, error, isLoading, hasMore,
                    fetchInitiated, afterTokens, apiCache, call, lastResult >>
    /\ UNCHANGED notPageVars

\* onValueChange of the sort radio group: if(!isLoading) setSortType(value)
\* (explored for sort settings chosen before the first response is cached)
SetSortType(s) ==
    /\ ~isLoading
    /\ DOMAIN apiCache = {}
    /\ s # sortType
    /\ sortType' = s
    /\ UNCHANGED << subredditInput, timeFrame, posts, error, isLoading, hasMore,
                    fetchInitiated, afterTokens, apiCache, call, lastResult >>
    /\ UNCHANGED notPageVars

\* the time frame select, rendered when sortType === 'top'
SetTimeFrame(t) ==
    /\ ~isLoading
    /\ DOMAIN apiCache = {}
    /\ sortType = "top"
    /\ t # timeFrame
    /\ timeFrame' = t
    /\ UNCHANGED << subredditInput, sortType, posts, error, isLoading, hasMore,
                    fetchInitiated, afterTokens, apiCache, call, lastResult >>
    /\ UNCHANGED notPageVars

RECURSIVE ClearInitialKeys(_, _, _, _)
\* subsToUse.forEach(sub => apiCache.delete(initialCacheKey))
ClearInitialKeys(cache, subs, sort, time) ==
    IF subs = <<>> THEN cache
    ELSE ClearInitialKeys(
            CacheDelete(cache, generateCacheKey(Head(subs), sort, TimeArg(sort, time), Undef)),
            Tail(subs), sort, time)

\* the call made by fetchInitialPosts / loadMorePosts up to performFetch's await
StartCall(kind, cache, subs, tokens) ==
    [kind |-> kind, subs |-> subs, sort |-> sortType, time |-> timeFrame,
     tokens |-> tokens,
     promises |-> FetchPromises(cache, subs, sortType, timeFrame, tokens)]

\* the fetch button / Enter key (both disabled while isLoading)
FetchInitialPosts ==
    /\ ~isLoading
    /\ LET subsToUse == subredditInput
           cleared == ClearInitialKeys(apiCache, subsToUse, sortType, timeFrame)
       IN  IF Len(subsToUse) = 0
           THEN /\ error' = "empty"
                /\ posts' = <<>>
                /\ fetchInitiated' = FALSE
                /\ hasMore' = FALSE
                /\ UNCHANGED << isLoading, afterTokens, apiCache, call, lastResult >>
           ELSE IF ~(\A i \in DOMAIN subsToUse : isValidSubreddit(subsToUse[i]))
           THEN \* performFetch throws before its loop; catch and finally run
                /\ error' = "fetch"
                /\ posts' = <<>>
                /\ afterTokens' = EmptyTokens
                /\ hasMore' = FALSE
                /\ fetchInitiated' = TRUE
                /\ isLoading' = FALSE
                /\ apiCache' = cleared
                /\ call' = NoCall
                /\ lastResult' = InvalidNameResult("initial", subsToUse, EmptyTokens)
           ELSE /\ isLoading' = TRUE
                /\ error' = "none"
                /\ posts' = <<>>
                /\ afterTokens' = EmptyTokens
                /\ hasMore' = TRUE
                /\ fetchInitiated' = TRUE
                /\ apiCache' = cleared
                /\ call' = StartCall("initial", cleared, subsToUse, EmptyTokens)
                /\ lastResult' = NoResult
    /\ UNCHANGED << subredditInput, sortType, timeFrame >>
    /\ UNCHANGED notPageVars

\* subsToUse.filter(sub => afterTokens[sub] !== null && afterTokens[sub] !== undefined)
SubsWithPotentialMore(subs, tokens) ==
    SelectSeq(subs, LAMBDA sub : tokens[sub] # Null /\ tokens[sub] # Undef)

\* mutant: the first line of loadMorePosts, its guard, is missing
LoadMorePostsUnguarded ==
    /\ LET subsToUse == subredditInput
           subsWithPotentialMore == SubsWithPotentialMore(subsToUse, afterTokens)
       IN  IF FALSE
           THEN UNCHANGED << posts, error, isLoading, hasMore, fetchInitiated,
                             afterTokens, apiCache, call, lastResult >>
           ELSE IF Len(subsToUse) = 0 \/ Len(subsWithPotentialMore) = 0
           THEN /\ hasMore' = FALSE
                /\ UNCHANGED << posts, error, isLoading, fetchInitiated,
                                afterTokens, apiCache, call, lastResult >>
           ELSE IF ~(\A i \in DOMAIN subsWithPotentialMore :
                        isValidSubreddit(subsWithPotentialMore[i]))
           THEN /\ error' = "loadmore"
                /\ hasMore' = FALSE
                /\ lastResult' = InvalidNameResult("more", subsWithPotentialMore, afterTokens)
                /\ UNCHANGED << posts, isLoading, fetchInitiated, afterTokens,
                                apiCache, call >>
           ELSE /\ isLoading' = TRUE
                /\ error' = "none"
                /\ call' = StartCall("more", apiCache, subsWithPotentialMore, afterTokens)
                /\ lastResult' = NoResult
                /\ UNCHANGED << posts, hasMore, fetchInitiated, afterTokens, apiCache >>
    /\ UNCHANGED << subredditInput, sortType, timeFrame >>
    /\ UNCHANGED notPageVars

\* the intersection observer's callback: loadMorePostsRef.current?.()
LoadMorePosts ==
    /\ LET subsToUse == subredditInput
           subsWithPotentialMore == SubsWithPotentialMore(subsToUse, afterTokens)
       IN  IF isLoading \/ ~hasMore \/ ~fetchInitiated
           THEN UNCHANGED << posts, error, isLoading, hasMore, fetchInitiated,
                             afterTokens, apiCache, call, lastResult >>
           ELSE IF Len(subsToUse) = 0 \/ Len(subsWithPotentialMore) = 0
           THEN /\ hasMore' = FALSE
                /\ UNCHANGED << posts, error, isLoading, fetchInitiated,
                                afterTokens, apiCache, call, lastResult >>
           ELSE IF ~(\A i \in DOMAIN subsWithPotentialMore :
                        isValidSubreddit(subsWithPotentialMore[i]))
           THEN /\ error' = "loadmore"
                /\ hasMore' = FALSE
                /\ lastResult' = InvalidNameResult("more", subsWithPotentialMore, afterTokens)
                /\ UNCHANGED << posts, isLoading, fetchInitiated, afterTokens,
                                apiCache, call >>
           ELSE /\ isLoading' = TRUE
                /\ error' = "none"
                /\ call' = StartCall("more", apiCache, subsWithPotentialMore, afterTokens)
                /\ lastResult' = NoResult
                /\ UNCHANGED << posts, hasMore, fetchInitiated, afterTokens, apiCache >>
    /\ UNCHANGED << subredditInput, sortType, timeFrame >>
    /\ UNCHANGED notPageVars

\* getPosts(...) of the i-th channel resolves with its page and cursor nxt; its
\* .then stores the response in the cache (storedAt, the instant of the set, is
\* not a field of CachedRedditResponse: it is kept to state the entry's age)
SettleFulfil(i, nxt) ==
    /\ call.kind # "none"
    /\ i \in DOMAIN call.promises
    /\ IsPending(call.promises[i])
    /\ nxt \in NextCursors(call.promises[i].param)
    /\ LET p == call.promises[i]
           response == [posts |-> PagePosts(p.sub, p.param), after |-> nxt]
       IN  /\ apiCache' = CacheSet(apiCache, p.key,
                                   [posts |-> response.posts, after |-> response.after,
                                    storedAt |-> now])
           /\ call' = [call EXCEPT !.promises[i] =
                          [p EXCEPT !.status = "fulfilled",
                                    !.posts = response.posts,
                                    !.after = response.after]]
    /\ UNCHANGED << subredditInput, sortType, timeFrame, posts, error, isLoading,
                    hasMore, fetchInitiated, afterTokens, lastResult >>
    /\ UNCHANGED notPageVars

\* mutant: a rejection is cached as an empty last page
SettleRejectCached(i) ==
    /\ call.kind # "none"
    /\ i \in DOMAIN call.promises
    /\ IsPending(call.promises[i])
    /\ call' = [call EXCEPT !.promises[i].status = "rejected"]
    /\ apiCache' = CacheSet(apiCache, call.promises[i].key,
                            [posts |-> << >>, after |-> Null])
    /\ UNCHANGED << subredditInput, sortType, timeFrame, posts, error, isLoading,
                    hasMore, fetchInitiated, afterTokens, lastResult >>
    /\ UNCHANGED notPageVars

\* getPosts(...) of the i-th channel rejects (HTTP error, network failure)
SettleReject(i) ==
    /\ call.kind # "none"
    /\ i \in DOMAIN call.promises
    /\ IsPending(call.promises[i])
    /\ call' = [call EXCEPT !.promises[i].status = "rejected"]
    /\ UNCHANGED << subredditInput, sortType, timeFrame, posts, error, isLoading,
                    hasMore, fetchInitiated, afterTokens, apiCache, lastResult >>
    /\ UNCHANGED notPageVars

\* mutant: no finally block, isLoading is reset on the path without a throw only
CompleteNoFinally ==
    /\ call.kind # "none"
    /\ AllSettled(call.promises)
    /\ LET r == PerformFetchResult(call.kind, call.subs, call.tokens, call.promises)
       IN  /\ lastResult' = r
           /\ IF r.outcome = "returned"
              THEN /\ posts' = (IF call.kind = "initial" THEN <<>> ELSE posts)
                                  \o interleavePosts(r.groupedPosts)
                   /\ afterTokens' = r.updatedAfterTokens
                   /\ hasMore' = r.anyHasMore
                   /\ error' = error
              ELSE /\ error' = (IF call.kind = "initial" THEN "fetch" ELSE "loadmore")
                   /\ hasMore' = FALSE
                   /\ posts' = (IF call.kind = "initial" THEN <<>> ELSE posts)
                   /\ afterTokens' = afterTokens
    /\ isLoading' = (PerformFetchResult(call.kind, call.subs, call.tokens,
                                       call.promises).outcome = "threw")
    /\ call' = NoCall
    /\ UNCHANGED << subredditInput, sortType, timeFrame, fetchInitiated, apiCache >>
    /\ UNCHANGED notPageVars

\* Promise.allSettled resolves: performFetch computes its result and the caller's
\* try / catch / finally runs
Complete ==
    /\ call.kind # "none"
    /\ AllSettled(call.promises)
    /\ LET r == PerformFetchResult(call.kind, call.subs, call.tokens, call.promises)
       IN  /\ lastResult' = r
           /\ IF r.outcome = "returned"
              THEN /\ posts' = (IF call.kind = "initial" THEN <<>> ELSE posts)
                                  \o interleavePosts(r.groupedPosts)
                   /\ afterTokens' = r.updatedAfterTokens
                   /\ hasMore' = r.anyHasMore
                   /\ error' = error
              ELSE /\ error' = (IF call.kind = "initial" THEN "fetch" ELSE "loadmore")
                   /\ hasMore' = FALSE
                   /\ posts' = (IF call.kind = "initial" THEN <<>> ELSE posts)
                   /\ afterTokens' = afterTokens
    /\ isLoading' = FALSE
    /\ call' = NoCall
    /\ UNCHANGED << subredditInput, sortType, timeFrame, fetchInitiated, apiCache >>
    /\ UNCHANGED notPageVars

-----------------------------------------------------------------------------
(* Idle values of the other components *)

InitInterleave == ilIn = <<>> /\ ilOut = [done |-> FALSE, value |-> <<>>]
InitRate ==
    /\ now = 0
    /\ store = <<>>
    /\ lastCheck = [kind |-> "none"]
    /\ windowLog = <<>>
RequestIds == {"r1", "r2"}

NoRateLimit == [success |-> TRUE, remaining |-> -1, resetTime |-> -1]
NoBody == [error |-> "none", resetTime |-> -1, remaining |-> -1]
\* token: how the request's getAccessToken call ended ("cache", "exchange",
\* "failed", "store_failed"), "none" before; upstream: how its listing request
\* ended; waited: the clock units begun since its call to the upstream was sent
IdleRequest == [pc |-> "idle", client |-> "none", query |-> NoQuery, rl |-> NoRateLimit,
                calls |-> {}, token |-> "none", upstream |-> "none", waited |-> 0,
                status |-> 0, body |-> NoBody]
NoToken == [token |-> "none", expiresAt |-> -1]

InitRoute ==
    /\ req = [r \in RequestIds |-> IdleRequest]
    /\ kvToken = NoToken
    /\ envValid = TRUE
    /\ served = 0

\* one key more than the cache may hold
CacheKeys == {"k" \o ToString(i) : i \in 1..(MaxSize + 1)}
\* the ttl argument of set when it is not given
NoTtl == -1
\* the calls of set: a value stored without ttl, another stored with ttl MaxTtl
SetArgs == {[value |-> "v1", ttl |-> NoTtl], [value |-> "v2", ttl |-> MaxTtl]}

NoWrite == [live |-> FALSE, value |-> "none", until |-> -1]
NoOp == [op |-> "none", key |-> "none", was |-> "none", result |-> "none"]

InitCache ==
    /\ ecache = <<>>
    /\ written = [k \in CacheKeys |-> NoWrite]
    /\ lastOp = NoOp

\* a URL string as the sequence of its pieces; the empty string, or a field
\* that is not there, is the empty sequence
NoUrl == << >>
\* a raw post none of whose media fields is set
EmptyPost == [id |-> "p1", is_video |-> FALSE, items |-> << >>, video |-> NoUrl,
              previewVideo |-> NoUrl, url |-> NoUrl, thumbnail |-> NoUrl,
              previewImage |-> NoUrl, crosspost_parent_list |-> << >>]
\* the callback's return null; steps and from record which steps of
\* extractMediaUrls, run on the post itself or on its crosspost parent, gave
\* the URLs
Absent == [kept |-> FALSE, mediaUrls |-> << >>, postId |-> "none",
           isUnplayableVideoFormat |-> FALSE, steps |-> {}, from |-> "none"]
\* extracted: what extractMediaUrls returned for the post itself
NotMapped == [by |-> "none", post |-> Absent,
              extracted |-> [urls |-> << >>, extracted |-> FALSE, steps |-> {}]]

InitMedia ==
    /\ child = EmptyPost
    /\ mapped = NotMapped

CheckIds == {"c1", "c2"}
NoKvEntry == [count |-> 0, resetTime |-> -1]
NoKvWrite == [count |-> 0, resetTime |-> -1, px |-> -1]
IdleCheck == [pc |-> "idle", key |-> "none", at |-> -1, current |-> NoKvEntry,
              toWrite |-> NoKvWrite, wrote |-> NoKvEntry, failed |-> FALSE,
              opened |-> FALSE, raced |-> FALSE, result |-> NoRateLimit]

InitKv ==
    /\ kvStore = << >>
    /\ kvChecks = [c \in CheckIds |-> IdleCheck]
    /\ kvLog = [begun |-> 0, allowed |-> << >>]

Init ==
    InitPage /\ InitInterleave /\ InitRate /\ InitRoute /\ InitCache /\ InitMedia /\ InitKv

Next ==
    \/ \E l \in Inputs : SetSubredditInput(l)
    \/ \E s \in SortTypes : SetSortType(s)
    \/ \E t \in TimeFrames : SetTimeFrame(t)
    \/ FetchInitialPosts
    \/ LoadMorePosts
    \/ \E i \in 1..3, nxt \in CursorValues : SettleFulfil(i, nxt)
    \/ \E i \in 1..3 : SettleReject(i)
    \/ Complete

Spec == Init /\ [][Next]_vars


-----------------------------------------------------------------------------
(* Properties of performFetch and its callers (specification Spec) *)

Ended == lastResult.outcome \in {"returned", "threw"}
Returned == lastResult.outcome = "returned"
FulfilledAt(r) == {i \in DOMAIN r.promises : r.promises[i].status = "fulfilled"}
RejectedAt(r) == {i \in DOMAIN r.promises : r.promises[i].status = "rejected"}
IsCursor(v) == v # Null /\ v # Undef

C2_FailedCursorUnchanged ==
    Returned =>
        \A i \in RejectedAt(lastResult) :
            lastResult.updatedAfterTokens[lastResult.subs[i]]
                = lastResult.tokens[lastResult.subs[i]]

\* C3: after a page request that returned with channel c failed, a loadMorePosts
\* call (c still being in the input) starts a performFetch that requests c with the
\* cursor parameter of the failed request.
C3_RetrySamePage ==
    [][ \A i \in (IF Returned THEN RejectedAt(lastResult) ELSE {}) :
            ( /\ LoadMorePosts
              /\ fetchInitiated
              /\ lastResult.subs[i] \in SeqToSet(subredditInput) )
            => /\ call'.kind = "more"
               /\ \E k \in DOMAIN call'.subs :
                    /\ call'.subs[k] = lastResult.subs[i]
                    /\ call'.promises[k].param = lastResult.promises[i].param
      ]_vars

\* C4: when every requested channel's fetch failed, performFetch throws and its
\* caller adds no posts and applies no cursor update: posts and afterTokens are
\* what they were, hasMore is cleared and an error is shown.
C4_TotalFailure ==
    [][ ( /\ call.kind # "none"
          /\ call'.kind = "none"
          /\ \A i \in DOMAIN call.promises : call.promises[i].status = "rejected" )
        => /\ lastResult'.outcome = "threw"
           /\ posts' = posts
           /\ afterTokens' = afterTokens
           /\ hasMore' = FALSE
           /\ error' # "none"
           /\ isLoading' = FALSE
      ]_vars

\* C4 witness: a load-more call of two channels, with posts on display, ended with
\* both fetches rejected
C4_Witness ==
    /\ lastResult.outcome = "threw"
    /\ lastResult.kind = "more"
    /\ Len(lastResult.promises) = 2
    /\ RejectedAt(lastResult) = {1, 2}
    /\ posts # <<>>

\* C5 as stated: anyHasMore is true iff some channel's cursor in the returned
\* cursor map is non-null.
C5_AnyHasMoreReturnedMap ==
    Returned =>
        (lastResult.anyHasMore
            <=> \E n \in Names : IsCursor(lastResult.updatedAfterTokens[n]))

\* C5 amended: anyHasMore is true iff some REQUESTED channel's cursor in the
\* returned cursor map is non-null.
C5_AnyHasMoreRequested ==
    Returned =>
        (lastResult.anyHasMore
            <=> \E i \in DOMAIN lastResult.subs :
                    IsCursor(lastResult.updatedAfterTokens[lastResult.subs[i]]))

\* C5 witness: a call returned anyHasMore = false while the returned map still
\* holds a cursor for a channel that was not requested
C5_Witness ==
    /\ Returned
    /\ ~lastResult.anyHasMore
    /\ \E n \in Names :
        /\ n \notin SeqToSet(lastResult.subs)
        /\ IsCursor(lastResult.updatedAfterTokens[n])

C11_CacheHitNoUpstream ==
    [][(call.kind = "none" /\ call'.kind # "none") =>
        /\ \A i \in DOMAIN call'.promises :
            LET p == call'.promises[i]
            IN  /\ CacheHas(apiCache', p.key) =>
                    /\ p.request = NoQuery
                    /\ IsFulfilled(p)
                    /\ p.posts = apiCache'[p.key].posts
                    /\ p.after = apiCache'[p.key].after
                /\ ~CacheHas(apiCache', p.key) => p.request # NoQuery /\ IsPending(p)
        /\ store' = store]_vars

\* C11 witness: a call in flight holds a promise served from the cache next to
\* one whose request is outstanding
C11_Witness ==
    /\ call.kind # "none"
    /\ \E i, j \in DOMAIN call.promises :
        /\ call.promises[i].hit /\ call.promises[i].request = NoQuery
        /\ IsPending(call.promises[j]) /\ call.promises[j].request # NoQuery

\* C12: a first-page request (fetchInitialPosts) for a channel whose first-page
\* key is in the cache, stored by an earlier first-page request of the same
\* (channel, sort, time frame) that succeeded, is served from the cache without
\* a request to /api/reddit.
C12_FirstPageFromCache ==
    [][(call.kind = "none" /\ call'.kind = "initial") =>
        \A i \in DOMAIN call'.promises :
            LET p == call'.promises[i]
            IN  CacheHas(apiCache, p.key) => p.hit /\ p.request = NoQuery]_vars

-----------------------------------------------------------------------------
(* interleavePosts as a pure function (specification SpecInterleave) *)

PostValues == {"p", "q"}
GroupLists == UNION {[1..n -> PostValues] : n \in 0..MaxGroupLen}
\* the argument: any list of at most MaxGroups lists, and the example of the
\* design document
GroupInputs ==
    UNION {[1..n -> GroupLists] : n \in 0..MaxGroups}
        \cup { << <<"a1", "a2">>, <<"b1">>, <<>> >> }

InitInterleaveCall ==
    /\ ilIn \in GroupInputs
    /\ ilOut = [done |-> FALSE, value |-> <<>>]

\* const interleaved = interleavePosts(groupedPosts)
CallInterleave ==
    /\ ~ilOut.done
    /\ ilOut' = [done |-> TRUE, value |-> interleavePosts(ilIn)]
    /\ UNCHANGED << ilIn, pageVars, rateVars, routeVars, cacheVars, mediaVars, kvVars >>

InitWithGroups ==
    InitKv /\ InitMedia /\ InitPage /\ InitRate /\ InitRoute /\ InitCache /\ InitInterleaveCall

SpecInterleave == InitWithGroups /\ [][CallInterleave]_vars

RECURSIVE TotalUpTo(_, _, _)
\* the number of elements of the first k lists of g that lie in rounds 1..j
TotalUpTo(g, k, j) ==
    IF k = 0 THEN 0
    ELSE TotalUpTo(g, k - 1, j) + (IF Len(g[k]) < j THEN Len(g[k]) ELSE j)

\* the round-robin position of element j of list i: after every element of the
\* earlier rounds and after the round-j elements of the lists before i
RoundRobinIndex(g, i, j) ==
    TotalUpTo(g, Len(g), j - 1) + Cardinality({k \in 1..i : Len(g[k]) >= j})

\* C6: interleavePosts returns the round-robin merge: as many elements as the
\* inputs hold together, element j of list i at its round-robin position (so the
\* output is a permutation of the inputs that keeps each list's order), and
\* [[a1,a2],[b1],[]] gives [a1,b1,a2].
C6_RoundRobin ==
    ilOut.done =>
        /\ Len(ilOut.value) = TotalUpTo(ilIn, Len(ilIn), MaxGroupLen + 1)
        /\ \A i \in DOMAIN ilIn : \A j \in DOMAIN ilIn[i] :
            ilOut.value[RoundRobinIndex(ilIn, i, j)] = ilIn[i][j]
        /\ ilIn = << <<"a1", "a2">>, <<"b1">>, <<>> >>
            => ilOut.value = <<"a1", "b1", "a2">>

\* C6 witness: the example, whose lists have three different lengths, was
\* interleaved
C6_Witness ==
    /\ ilOut.done
    /\ ilIn = << <<"a1", "a2">>, <<"b1">>, <<>> >>
    /\ ilOut.value = <<"a1", "b1", "a2">>


-----------------------------------------------------------------------------
(* InMemoryRateLimiter (specification SpecRate) *)

Identities == {"ip1", "ip2"}

rateLimitConfigs ==
    [reddit |-> [maxRequests |-> RedditMaxRequests, windowMs |-> RedditWindowMs]]

\* cleanup(): delete every entry with now > resetTime
Cleanup(st, t) == [k \in {x \in DOMAIN st : ~(t > st[x].resetTime)} |-> st[k]]

StoreSet(st, key, value) ==
    [k \in DOMAIN st \cup {key} |-> IF k = key THEN value ELSE st[k]]

\* mutant: the limit is tested with > in place of >=
CheckOffByOne(st0, key, config, t) ==
    LET st == Cleanup(st0, t)
        windowStart == t + config.windowMs
    IN  IF key \notin DOMAIN st \/ t > st[key].resetTime
        THEN [store |-> StoreSet(st, key, [count |-> 1, resetTime |-> windowStart]),
              result |-> [success |-> TRUE, remaining |-> config.maxRequests - 1,
                          resetTime |-> windowStart]]
        ELSE IF st[key].count > config.maxRequests
        THEN [store |-> st,
              result |-> [success |-> FALSE, remaining |-> 0,
                          resetTime |-> st[key].resetTime]]
        ELSE [store |-> StoreSet(st, key, [st[key] EXCEPT !.count = @ + 1]),
              result |-> [success |-> TRUE,
                          remaining |-> config.maxRequests - (st[key].count + 1),
                          resetTime |-> st[key].resetTime]]

\* mutant: the count is incremented before it is compared, so a denied check
\* still counts
CheckCountsDenied(st0, key, config, t) ==
    LET st == Cleanup(st0, t)
        windowStart == t + config.windowMs
    IN  IF key \notin DOMAIN st \/ t > st[key].resetTime
        THEN [store |-> StoreSet(st, key, [count |-> 1, resetTime |-> windowStart]),
              result |-> [success |-> TRUE, remaining |-> config.maxRequests - 1,
                          resetTime |-> windowStart]]
        ELSE IF st[key].count >= config.maxRequests
        THEN [store |-> StoreSet(st, key, [st[key] EXCEPT !.count = @ + 1]),
              result |-> [success |-> FALSE, remaining |-> 0,
                          resetTime |-> st[key].resetTime]]
        ELSE [store |-> StoreSet(st, key, [st[key] EXCEPT !.count = @ + 1]),
              result |-> [success |-> TRUE,
                          remaining |-> config.maxRequests - (st[key].count + 1),
                          resetTime |-> st[key].resetTime]]

\* InMemoryRateLimiter.check(key, config) at Date.now() = t: the store after the
\* call and the RateLimitResult
InMemoryCheck(st0, key, config, t) ==
    LET st == Cleanup(st0, t)
        windowStart == t + config.windowMs
    IN  IF key \notin DOMAIN st \/ t > st[key].resetTime
        THEN [store |-> StoreSet(st, key, [count |-> 1, resetTime |-> windowStart]),
              result |-> [success |-> TRUE, remaining |-> config.maxRequests - 1,
                          resetTime |-> windowStart]]
        ELSE IF st[key].count >= config.maxRequests
        THEN [store |-> st,
              result |-> [success |-> FALSE, remaining |-> 0,
                          resetTime |-> st[key].resetTime]]
        ELSE [store |-> StoreSet(st, key, [st[key] EXCEPT !.count = @ + 1]),
              result |-> [success |-> TRUE,
                          remaining |-> config.maxRequests - (st[key].count + 1),
                          resetTime |-> st[key].resetTime]]

NoEntry == [count |-> 0, resetTime |-> -1]
EntryOf(st, key) == IF key \in DOMAIN st THEN st[key] ELSE NoEntry

\* the checks of one identity since its window opened: the time of the opening
\* check and how many checks were made (counted up to two past the limit)
LogCheck(log, key, config, t) ==
    IF key \in DOMAIN log /\ t <= log[key].start + config.windowMs
    THEN StoreSet(log, key,
            [log[key] EXCEPT !.n = IF @ < config.maxRequests + 2 THEN @ + 1 ELSE @])
    ELSE StoreSet(log, key, [start |-> t, n |-> 1])

\* applyRateLimit(identifier, 'reddit')
Check(key) ==
    /\ LET config == rateLimitConfigs.reddit
           r == InMemoryCheck(store, key, config, now)
           log == LogCheck(windowLog, key, config, now)
       IN  /\ store' = r.store
           /\ windowLog' = log
           /\ lastCheck' = [kind |-> "check", key |-> key, config |-> config, at |-> now,
                            before |-> EntryOf(store, key),
                            after |-> EntryOf(r.store, key),
                            result |-> r.result,
                            start |-> log[key].start, ordinal |-> log[key].n]
    /\ UNCHANGED << now, pageVars, ilVars, routeVars, cacheVars, mediaVars, kvVars >>

\* time passes
Tick ==
    /\ now < MaxTime
    /\ now' = now + 1
    /\ UNCHANGED << store, lastCheck, windowLog, pageVars, ilVars, routeVars, cacheVars, mediaVars, kvVars >>

NextRate ==
    \/ \E key \in Identities : Check(key)
    \/ Tick

SpecRate == Init /\ [][NextRate]_vars

-----------------------------------------------------------------------------
(* GET /api/reddit (specification SpecRoute) *)

\* expiresIn - 60: the margin taken off the token's validity, one clock unit
SafetyMargin == 1

\* query strings; "null" is a parameter that is not given (searchParams.get)
Queries ==
    { [subreddit |-> "pics", sortType |-> "hot", timeFrame |-> "day",
       after |-> "t3_a", limit |-> 20],
      [subreddit |-> "pics", sortType |-> "top", timeFrame |-> "null",
       after |-> "t3_a", limit |-> 20],
      [subreddit |-> "no such/sub", sortType |-> "top", timeFrame |-> "null",
       after |-> "null", limit |-> 20] }

\* redditApiQuerySchema.safeParse(queryParams).success
SchemaValid(q) ==
    /\ q.subreddit \in {"pics"}
    /\ q.sortType \in {"hot", "top"}
    /\ q.timeFrame \in {"day", "week", "month", "year", "all"}
    /\ q.after # "null"
    /\ q.limit >= 1 /\ q.limit <= 100

\* mutant: the denied branch logs the warning but does not return
AfterRateLimitNoReturn(r, rl) ==
    IF ~SchemaValid(r.query)
    THEN [r EXCEPT !.pc = "done", !.rl = rl, !.status = 400,
                   !.body = [NoBody EXCEPT !.error = "Validation failed"]]
    ELSE [r EXCEPT !.pc = "token_get", !.rl = rl]

\* GET from the rate limit result to its first await: 429, 400, or on to
\* getAccessToken
AfterRateLimit(r, rl) ==
    IF ~rl.success
    THEN [r EXCEPT !.pc = "done", !.rl = rl, !.status = 429,
                   !.body = [error |-> "Rate limit exceeded",
                             resetTime |-> rl.resetTime,
                             remaining |-> rl.remaining]]
    ELSE IF ~SchemaValid(r.query)
    THEN [r EXCEPT !.pc = "done", !.rl = rl, !.status = 400,
                   !.body = [NoBody EXCEPT !.error = "Validation failed"]]
    ELSE [r EXCEPT !.pc = "token_get", !.rl = rl]

\* a request arrives: GET awaits applyRateLimit(clientId, 'reddit')
Arrive(r, client, q) ==
    /\ req[r].pc \in {"idle", "done"}
    /\ served < MaxServed
    /\ served' = served + 1
    /\ req' = [req EXCEPT ![r] = [IdleRequest EXCEPT !.pc = "ratelimit",
                                                     !.client = client, !.query = q]]
    /\ UNCHANGED << kvToken, envValid, rateVars, pageVars, ilVars, cacheVars, mediaVars, kvVars >>

\* the rate limit result arrives; the handler runs to its first network await
Admit(r) ==
    /\ req[r].pc = "ratelimit"
    /\ LET c == InMemoryCheck(store, req[r].client, rateLimitConfigs.reddit, now)
       IN  /\ store' = c.store
           /\ req' = [req EXCEPT ![r] = AfterRateLimit(req[r], c.result)]
    /\ UNCHANGED << now, lastCheck, windowLog, kvToken, envValid, served, pageVars, ilVars, cacheVars, mediaVars, kvVars >>

\* mutant: the catch block answers 200
FailAsOk(r, status, msg) ==
    [r EXCEPT !.pc = "done", !.status = 200, !.waited = 0,
              !.body = [NoBody EXCEPT !.error = msg]]

\* a response with an error body
Fail(r, status, msg) ==
    [r EXCEPT !.pc = "done", !.status = status, !.waited = 0,
              !.body = [NoBody EXCEPT !.error = msg]]

\* the key 'reddit_access_token' is readable until its ex seconds have passed
TokenValid(tok, t) == tok.token # "none" /\ t < tok.expiresAt

\* mutant: getAccessToken without the cache lookup's early return
AfterKvGetNoCache(r, tok, t, env) ==
    LET r1 == [r EXCEPT !.calls = @ \cup {"kv_get"}]
    IN  IF ~env
        THEN [Fail(r1, 500, "Server configuration error") EXCEPT !.token = "failed"]
        ELSE [r1 EXCEPT !.pc = "exchange", !.calls = @ \cup {"exchange"}]

\* the request once kv.get has answered: with a cached token getAccessToken
\* returns it and GET sends the listing request (after getValidatedEnv);
\* without one getAccessToken validates the environment and sends the exchange
AfterKvGet(r, tok, t, env) ==
    LET r1 == [r EXCEPT !.calls = @ \cup {"kv_get"}]
    IN  IF TokenValid(tok, t)
        THEN IF ~env
             THEN [Fail(r1, 500, "Server configuration error") EXCEPT !.token = "cache"]
             ELSE [r1 EXCEPT !.pc = "listing", !.token = "cache",
                             !.calls = @ \cup {"listing"}]
        ELSE IF ~env
        THEN [Fail(r1, 500, "Server configuration error") EXCEPT !.token = "failed"]
        ELSE [r1 EXCEPT !.pc = "exchange", !.calls = @ \cup {"exchange"}]

\* getAccessToken: kv.get('reddit_access_token') answers
TokenGet(r) ==
    /\ req[r].pc = "token_get"
    /\ req' = [req EXCEPT ![r] = AfterKvGet(req[r], kvToken, now, envValid)]
    /\ UNCHANGED << kvToken, envValid, served, rateVars, pageVars, ilVars, cacheVars, mediaVars, kvVars >>

\* validity durations the token endpoint reports: the margin itself and more
Durations == {SafetyMargin, SafetyMargin + 1, SafetyMargin + 2}

\* kv.set(key, token, { ex }): the store accepts a positive ex only (SET ... EX
\* with ex <= 0 is answered with an error)
KvSetAccepts(ex) == ex > 0

\* the token endpoint answers with a token valid for expiresIn: kv.set with
\* ex = expiresIn - 60; when it is stored getAccessToken returns the token and
\* GET sends the listing request; when kv.set throws, the handler's catch
\* answers 500
ExchangeOk(r, expiresIn) ==
    /\ req[r].pc = "exchange"
    /\ LET ex == expiresIn - SafetyMargin
       IN  IF KvSetAccepts(ex)
           THEN /\ kvToken' = [token |-> "bearer", expiresAt |-> now + ex]
                /\ req' = [req EXCEPT ![r] =
                            [@ EXCEPT !.pc = "listing", !.token = "exchange",
                                      !.waited = 0,
                                      !.calls = @ \cup {"kv_set", "listing"}]]
           ELSE /\ kvToken' = kvToken
                /\ req' = [req EXCEPT ![r] =
                            [Fail(@, 500, "An internal server error occurred")
                                EXCEPT !.token = "store_failed",
                                       !.calls = @ \cup {"kv_set"}]]
    /\ UNCHANGED << envValid, served, rateVars, pageVars, ilVars, cacheVars, mediaVars, kvVars >>

\* the token endpoint answers non-2xx or without a token, or the call fails:
\* getAccessToken throws, the handler's catch answers 500
ExchangeFail(r) ==
    /\ req[r].pc = "exchange"
    /\ req' = [req EXCEPT ![r] =
                [Fail(@, 500, "An internal server error occurred") EXCEPT !.token = "failed"]]
    /\ UNCHANGED << kvToken, envValid, served, rateVars, pageVars, ilVars, cacheVars, mediaVars, kvVars >>

\* how the listing request ends: a 2xx answer, a non-2xx answer with its
\* status, the 10 s timer (TimeoutError), any other failure of fetch
ListingOutcomes == {"ok", "http429", "http503", "timeout", "network"}
UpstreamStatus(outcome) == IF outcome = "http429" THEN 429 ELSE 503

\* AbortSignal.timeout(10000): the clock units that can begin while a listing
\* request is out (10 s is less than one unit)
FetchTimeoutUnits == 1

\* the listing request ends: 200 with the posts, the upstream status (5xx as
\* 502), 504 on TimeoutError, 500 on any other error
ListingResult(r, outcome) ==
    /\ req[r].pc = "listing"
    /\ req' = [req EXCEPT ![r] =
                CASE outcome = "ok" ->
                        [@ EXCEPT !.pc = "done", !.status = 200, !.waited = 0,
                                  !.upstream = outcome]
                  [] outcome \in {"http429", "http503"} ->
                        [Fail(@, IF UpstreamStatus(outcome) >= 500 THEN 502
                                 ELSE UpstreamStatus(outcome), "Reddit API Error")
                            EXCEPT !.upstream = outcome]
                  [] outcome = "timeout" ->
                        [Fail(@, 504, "Request timeout") EXCEPT !.upstream = outcome]
                  [] OTHER ->
                        [Fail(@, 500, "An internal server error occurred")
                            EXCEPT !.upstream = outcome]]
    /\ UNCHANGED << kvToken, envValid, served, rateVars, pageVars, ilVars, cacheVars, mediaVars, kvVars >>

\* time passes: a clock unit begins. The timer of a listing request that has
\* been out since before the last unit began fires first; the credential
\* exchange is sent without a timer
RouteTick ==
    /\ now < MaxTime
    /\ \A r \in RequestIds : req[r].pc = "listing" => req[r].waited < FetchTimeoutUnits
    /\ now' = now + 1
    /\ req' = [r \in RequestIds |->
                IF req[r].pc \in {"exchange", "listing"}
                   /\ req[r].waited <= FetchTimeoutUnits
                THEN [req[r] EXCEPT !.waited = @ + 1] ELSE req[r]]
    /\ UNCHANGED << store, lastCheck, windowLog, kvToken, envValid, served,
                    pageVars, ilVars, cacheVars, mediaVars, kvVars >>

InitRouteEnv ==
    /\ req = [r \in RequestIds |-> IdleRequest]
    /\ kvToken = NoToken
    /\ envValid \in BOOLEAN
    /\ served = 0

\* getClientIdentifier(request): the requests come from one address
RouteClients == {"ip1"}

NextRoute ==
    \/ \E r \in RequestIds, client \in RouteClients, q \in Queries : Arrive(r, client, q)
    \/ \E r \in RequestIds : Admit(r)
    \/ \E r \in RequestIds : TokenGet(r)
    \/ \E r \in RequestIds, d \in Durations : ExchangeOk(r, d)
    \/ \E r \in RequestIds : ExchangeFail(r)
    \/ \E r \in RequestIds, o \in ListingOutcomes : ListingResult(r, o)
    \/ RouteTick

InitWithEnv ==
    InitPage /\ InitInterleave /\ InitRate /\ InitCache /\ InitMedia /\ InitKv
        /\ InitRouteEnv

SpecRoute == InitWithEnv /\ [][NextRoute]_vars

\* C10: a request the rate limiter disallowed is answered 429 with the
\* limiter's resetTime and remaining, and makes no network call: no token
\* lookup, no credential exchange, no listing request.
C10_DeniedBeforeNetwork ==
    \A r \in RequestIds :
        ~req[r].rl.success =>
            /\ req[r].pc = "done"
            /\ req[r].status = 429
            /\ req[r].body.resetTime = req[r].rl.resetTime
            /\ req[r].body.remaining = req[r].rl.remaining
            /\ req[r].calls = {}

\* C10 witness: a request with valid parameters was denied while the other
\* request, admitted earlier, is on the network
C10_Witness ==
    \E r, o \in RequestIds :
        /\ req[r].pc = "done" /\ ~req[r].rl.success /\ req[r].status = 429
        /\ SchemaValid(req[r].query)
        /\ req[r].body.remaining = 0
        /\ req[o].pc = "listing"

C18_StoredWithMargin ==
    [][\A r \in RequestIds :
        /\ \A d \in Durations :
            ExchangeOk(r, d) =>
                /\ kvToken' = [token |-> "bearer", expiresAt |-> now + d - SafetyMargin]
                /\ req'[r].token = "exchange"
                /\ req'[r].pc = "listing"
        /\ (req[r].token = "none" /\ req'[r].token = "cache") => now < kvToken.expiresAt
      ]_vars

\* C19: when getAccessToken fails (environment invalid, exchange answered
\* non-2xx or without a token, or the exchange call failed), the failing step
\* stores no credential, and the request is finished with a 5xx status without
\* having sent a listing request.
C19_CredentialFailure ==
    [][\A r \in RequestIds :
        req'[r].token = "failed" =>
            /\ req'[r].pc = "done"
            /\ req'[r].status >= 500 /\ req'[r].status <= 599
            /\ "listing" \notin req'[r].calls
            /\ req[r].token # "failed" => kvToken' = kvToken
      ]_vars

\* C19 witness: an exchange failed with no credential cached; the request
\* ended with 500 and the store is still empty
C19_Witness ==
    \E r \in RequestIds :
        /\ req[r].token = "failed" /\ "exchange" \in req[r].calls
        /\ req[r].pc = "done" /\ req[r].status = 500
        /\ kvToken = NoToken

\* C20: single flight. At most one credential exchange is outstanding at any
\* time.
C20_SingleFlight ==
    Cardinality({r \in RequestIds : req[r].pc = "exchange"}) <= 1

-----------------------------------------------------------------------------
(* EnhancedCache (specification SpecCache) *)

\* position of key in the map's insertion order, 0 when it has no entry
IndexOfKey(c, key) ==
    IF \E i \in DOMAIN c : c[i].key = key
    THEN CHOOSE i \in DOMAIN c : c[i].key = key
    ELSE 0

MapHas(c, key) == IndexOfKey(c, key) # 0

\* Map.delete
MapDelete(c, key) ==
    LET i == IndexOfKey(c, key)
    IN  IF i = 0 THEN c ELSE SubSeq(c, 1, i - 1) \o SubSeq(c, i + 1, Len(c))

\* Map.set: an existing key keeps its position, a new one goes last
MapSet(c, entry) ==
    LET i == IndexOfKey(c, entry.key)
    IN  IF i = 0 THEN Append(c, entry) ELSE [c EXCEPT ![i] = entry]

RECURSIVE OldestKey(_, _, _, _)
\* the loop of evictLRU from entry i on: oldestKey (as a position, 0 = null)
\* after comparing entry.lastAccessed < oldestTime for each entry in order
OldestKey(c, i, oldestKey, oldestTime) ==
    IF i > Len(c) THEN oldestKey
    ELSE IF c[i].lastAccessed < oldestTime
         THEN OldestKey(c, i + 1, i, c[i].lastAccessed)
         ELSE OldestKey(c, i + 1, oldestKey, oldestTime)

\* evictLRU: oldestTime starts at Date.now()
evictLRU(c, t) ==
    LET oldestKey == OldestKey(c, 1, 0, t)
    IN  IF oldestKey # 0 THEN MapDelete(c, c[oldestKey].key) ELSE c

\* ttl ?? this.defaultTTL
EffectiveTtl(ttl) == IF ttl = NoTtl THEN DefaultTTL ELSE ttl

\* mutant: the entry expires at once, whatever ttl says
EnhancedSetNoTtl(c, key, value, ttl, t) ==
    LET c1 == IF Len(c) >= MaxSize /\ ~MapHas(c, key) THEN evictLRU(c, t) ELSE c
    IN  MapSet(c1, [key |-> key, data |-> value, expiresAt |-> t - 1, lastAccessed |-> t])

\* set(key, value, ttl) at time t
EnhancedSet(c, key, value, ttl, t) ==
    LET expiresAt == t + EffectiveTtl(ttl)
        c1 == IF Len(c) >= MaxSize /\ ~MapHas(c, key) THEN evictLRU(c, t) ELSE c
    IN  MapSet(c1, [key |-> key, data |-> value, expiresAt |-> expiresAt, lastAccessed |-> t])

\* mutant: get without the expiry check
EnhancedGetNoExpiry(c, key, t) ==
    LET i == IndexOfKey(c, key)
    IN  IF i = 0 THEN [cache |-> c, result |-> "undefined"]
        ELSE [cache |-> [c EXCEPT ![i].lastAccessed = t],
              result |-> c[i].data]

\* get(key) at time t: the map afterwards and the value returned
EnhancedGet(c, key, t) ==
    LET i == IndexOfKey(c, key)
    IN  IF i = 0 THEN [cache |-> c, result |-> "undefined"]
        ELSE IF t > c[i].expiresAt
        THEN [cache |-> MapDelete(c, key), result |-> "undefined"]
        ELSE [cache |-> [c EXCEPT ![i].lastAccessed = t],
              result |-> c[i].data]

\* has(key) at time t
EnhancedHas(c, key, t) ==
    LET i == IndexOfKey(c, key)
    IN  IF i = 0 THEN [cache |-> c, result |-> "false"]
        ELSE IF t > c[i].expiresAt
        THEN [cache |-> MapDelete(c, key), result |-> "false"]
        ELSE [cache |-> c, result |-> "true"]

\* cleanup(): the periodic sweep removes every expired entry
EnhancedCleanup(c, t) == SelectSeq(c, LAMBDA entry : ~(t > entry.expiresAt))

\* a set of a new key into a full cache has to make room
EvictionCausing(c, key) == Len(c) >= MaxSize /\ ~MapHas(c, key)

EcSet(key, value, ttl) ==
    /\ ecache' = EnhancedSet(ecache, key, value, ttl, now)
    /\ written' = [k \in CacheKeys |->
                    IF k = key
                    THEN [live |-> TRUE, value |-> value, until |-> now + EffectiveTtl(ttl)]
                    ELSE IF EvictionCausing(ecache, key) THEN NoWrite
                    ELSE written[k]]
    /\ lastOp' = NoOp
    /\ UNCHANGED << now, store, lastCheck, windowLog, pageVars, ilVars, routeVars, mediaVars, kvVars >>

\* what the map held for key when the operation began
EntryState(c, key, t) ==
    IF ~MapHas(c, key) THEN "missing"
    ELSE IF t > c[IndexOfKey(c, key)].expiresAt THEN "expired"
    ELSE "live"

EcGet(key) ==
    /\ LET g == EnhancedGet(ecache, key, now)
       IN  /\ ecache' = g.cache
           /\ lastOp' = [NoOp EXCEPT !.op = "get", !.key = key,
                                      !.was = EntryState(ecache, key, now),
                                      !.result = g.result]
    /\ UNCHANGED << written, now, store, lastCheck, windowLog, pageVars, ilVars, routeVars, mediaVars, kvVars >>

EcHas(key) ==
    /\ LET h == EnhancedHas(ecache, key, now)
       IN  /\ ecache' = h.cache
           /\ lastOp' = [NoOp EXCEPT !.op = "has", !.key = key,
                                      !.was = EntryState(ecache, key, now),
                                      !.result = h.result]
    /\ UNCHANGED << written, now, store, lastCheck, windowLog, pageVars, ilVars, routeVars, mediaVars, kvVars >>

EcDelete(key) ==
    /\ ecache' = MapDelete(ecache, key)
    /\ written' = [written EXCEPT ![key] = NoWrite]
    /\ lastOp' = NoOp
    /\ UNCHANGED << now, store, lastCheck, windowLog, pageVars, ilVars, routeVars, mediaVars, kvVars >>

\* the setInterval callback
EcCleanup ==
    /\ ecache' = EnhancedCleanup(ecache, now)
    /\ lastOp' = NoOp
    /\ UNCHANGED << written, now, store, lastCheck, windowLog, pageVars, ilVars, routeVars, mediaVars, kvVars >>

EcTick ==
    /\ now < MaxCacheTime
    /\ now' = now + 1
    /\ written' = [k \in CacheKeys |->
                    IF written[k].live /\ now' <= written[k].until THEN written[k]
                    ELSE NoWrite]
    /\ lastOp' = NoOp
    /\ UNCHANGED << ecache, store, lastCheck, windowLog, pageVars, ilVars, routeVars, mediaVars, kvVars >>

NextCache ==
    \/ \E k \in CacheKeys, a \in SetArgs : EcSet(k, a.value, a.ttl)
    \/ \E k \in CacheKeys : EcGet(k)
    \/ \E k \in CacheKeys : EcHas(k)
    \/ \E k \in CacheKeys : EcDelete(k)
    \/ EcCleanup
    \/ EcTick

SpecCache == Init /\ [][NextCache]_vars

EntryOfKey(c, key) == c[IndexOfKey(c, key)]
KeysOf(c) == {c[i].key : i \in DOMAIN c}

\* C13: round trip. A get(k) that follows set(k, v, ttl) (ttl the default when
\* not given) no later than ttl after it, with no delete of k and no set that
\* had to make room in between, returns v.
C13_RoundTrip ==
    (lastOp.op = "get" /\ written[lastOp.key].live) =>
        lastOp.result = written[lastOp.key].value

\* C13 witness: get returned the value set with ttl MaxTtl at the last instant
\* of its validity, MaxTtl after the set, with another key stored meanwhile
C13_Witness ==
    /\ lastOp.op = "get" /\ lastOp.result = "v2"
    /\ written[lastOp.key] = [live |-> TRUE, value |-> "v2", until |-> now]
    /\ MaxTtl > 0
    /\ Len(ecache) > 1

\* C14: a get or has on an entry whose expiry has passed returns absent and
\* removes the entry; a get that returns a value, and a has that returns true,
\* found an entry whose expiry has not passed.
C14_NoExpiredRead ==
    /\ (lastOp.op \in {"get", "has"} /\ lastOp.was = "expired") =>
            /\ lastOp.result \in {"undefined", "false"}
            /\ ~MapHas(ecache, lastOp.key)
    /\ (lastOp.op = "get" /\ lastOp.result # "undefined") =>
            /\ lastOp.was = "live"
            /\ MapHas(ecache, lastOp.key)
            /\ now <= EntryOfKey(ecache, lastOp.key).expiresAt
            /\ lastOp.result = EntryOfKey(ecache, lastOp.key).data
    /\ (lastOp.op = "has" /\ lastOp.result = "true") =>
            /\ lastOp.was = "live"
            /\ MapHas(ecache, lastOp.key)
            /\ now <= EntryOfKey(ecache, lastOp.key).expiresAt

\* C14 witness: a get found an expired entry, returned absent and removed it
\* while another entry stayed
C14_Witness ==
    /\ lastOp.op = "get" /\ lastOp.was = "expired" /\ lastOp.result = "undefined"
    /\ ~MapHas(ecache, lastOp.key)
    /\ Len(ecache) > 0

\* C15: a set of a new key into a cache holding maxSize entries removes exactly
\* one entry, one whose lastAccessed is the oldest, and inserts the new entry.
C15_EvictsLeastRecent ==
    [][\A k \in CacheKeys, a \in SetArgs :
        (Len(ecache) = MaxSize /\ ~MapHas(ecache, k) /\ EcSet(k, a.value, a.ttl)) =>
            \E j \in DOMAIN ecache :
                /\ \A m \in DOMAIN ecache : ecache[j].lastAccessed <= ecache[m].lastAccessed
                /\ KeysOf(ecache') = (KeysOf(ecache) \ {ecache[j].key}) \cup {k}
                /\ Len(ecache') = MaxSize
      ]_vars

\* C16: the cache never holds more than maxSize entries.
C16_Bounded == Len(ecache) <= MaxSize


-----------------------------------------------------------------------------
(* Validation, status codes and timeouts of GET /api/reddit (specification
   SpecRoute) *)

\* the request passed redditApiQuerySchema: it is at, or has made, kv.get
Accepted(r) == req[r].pc = "token_get" \/ "kv_get" \in req[r].calls

\* C25: validation accepts a query only if timeFrame is present exactly when
\* sortType = top; a top query without timeFrame is answered 400 before any
\* call to the upstream.
C25_TimeFrameIffTop ==
    \A r \in RequestIds :
        /\ Accepted(r) =>
            (req[r].query.timeFrame # "null" <=> req[r].query.sortType = "top")
        /\ (req[r].pc = "done" /\ req[r].rl.success
                /\ req[r].query.sortType = "top" /\ req[r].query.timeFrame = "null")
            => (req[r].status = 400 /\ req[r].calls = {})

\* C26: a request with invalid parameters is answered with a validation
\* error (400) without changing the caller's rate-limit count or the stored
\* credential and without any call to the network.
C26_ValidationBeforeCoreLogic ==
    [][\A r \in RequestIds :
        (req[r].pc = "ratelimit" /\ req'[r].pc # "ratelimit"
            /\ ~SchemaValid(req[r].query)) =>
                /\ req'[r].pc = "done"
                /\ req'[r].status = 400
                /\ req'[r].calls = {}
                /\ store' = store
                /\ kvToken' = kvToken
      ]_vars

\* C27: the status of a finished request names its failure class: 400 exactly
\* when validation failed, 429 exactly when the rate limiter denied the
\* request and then with its resetTime and remaining, a 5xx status when the
\* upstream or the credential failed, 504 when the upstream timed out.
C27_StatusNamesFailureClass ==
    \A r \in RequestIds :
        req[r].pc = "done" =>
            /\ req[r].status = 400 <=> (req[r].rl.success /\ ~SchemaValid(req[r].query))
            /\ req[r].status = 429 <=> ~req[r].rl.success
            /\ req[r].status = 429 =>
                /\ req[r].body.resetTime = req[r].rl.resetTime
                /\ req[r].body.remaining = req[r].rl.remaining
            /\ (req[r].upstream \in {"http429", "http503", "network"}
                    \/ req[r].token \in {"failed", "store_failed"})
                => (req[r].status >= 500 /\ req[r].status <= 599)
            /\ req[r].upstream = "timeout" => req[r].status = 504

\* C28: every call to the upstream carries a bounded timeout: no credential
\* exchange and no listing request stays out for more than the timeout, and a
\* request whose upstream call timed out is finished with 504.
C28_BoundedUpstreamCalls ==
    \A r \in RequestIds :
        /\ req[r].pc \in {"exchange", "listing"} => req[r].waited <= FetchTimeoutUnits
        /\ (req[r].pc = "done" /\ req[r].upstream = "timeout") => req[r].status = 504


-----------------------------------------------------------------------------
(* extractMediaUrls and the post mapping of GET and getPosts (specification
   SpecMedia) *)

\* gallery_data.items: at most this many items
MaxGalleryItems == 2

\* String.prototype.includes and endsWith, for search strings that are one
\* piece of the URL
includes(u, s) == \E i \in 1..Len(u) : u[i] = s
endsWith(u, s) == Len(u) > 0 /\ u[Len(u)] = s
\* String.prototype.toLowerCase
toLowerCase(u) == [i \in 1..Len(u) |-> IF u[i] = ".JPG" THEN ".jpg" ELSE u[i]]

\* URLs as upstream gives them: of native video (a file, with and without
\* query string, and a manifest), of a video preview, of the post's link, of
\* an embed thumbnail, of the preview image and of gallery items
Url ==
    [ VideoFile |-> << "https://", "v.redd.it", "/v1/DASH_720", ".mp4", "?source=fallback" >>,
      VideoFilePlain |-> << "https://", "v.redd.it", "/v1/DASH_720", ".mp4" >>,
      VideoManifest |-> << "https://", "v.redd.it", "/v1/", "DASHPlaylist.mpd" >>,
      PreviewClip |-> << "https://", "preview.redd.it", "/clip", ".mp4" >>,
      ImageLink |-> << "https://", "i.redd.it", "/a", ".jpg" >>,
      ImageLinkUpper |-> << "https://", "i.redd.it", "/b", ".JPG" >>,
      ImageLinkElsewhere |-> << "https://", "example.com", "/c", ".jpg" >>,
      PageLink |-> << "https://", "example.com", "/article" >>,
      Thumbnail |-> << "https://", "i.ytimg.com", "/vi/hq", ".jpg" >>,
      PreviewSource |-> << "https://", "external-preview.redd.it", "/p", ".jpg", "?width=640" >>,
      GalleryLow |-> << "https://", "preview.redd.it", "/g1", ".jpg", "?width=108" >>,
      GalleryHigh |-> << "https://", "preview.redd.it", "/g1", ".jpg", "?width=640" >>,
      GallerySource1 |-> << "https://", "preview.redd.it", "/g1", ".jpg" >>,
      GallerySource2 |-> << "https://", "preview.redd.it", "/g2", ".png" >>,
      GalleryElsewhere |-> << "https://", "example.com", "/g4", ".jpg" >>,
      RelativeLink |-> << "/r/pics/d", ".jpg" >> ]

\* media_metadata: m1 has previews and a source, m2 a source only, m3 no
\* entry, m4 a source on another host
MediaIds == {"m1", "m2", "m3", "m4"}
NoMeta == [p |-> << >>, s |-> NoUrl, present |-> FALSE]
media_metadata(mediaId) ==
    CASE mediaId = "m1" -> [p |-> << Url.GalleryLow, Url.GalleryHigh >>,
                            s |-> Url.GallerySource1, present |-> TRUE]
      [] mediaId = "m2" -> [p |-> << >>, s |-> Url.GallerySource2, present |-> TRUE]
      [] mediaId = "m4" -> [p |-> << >>, s |-> Url.GalleryElsewhere, present |-> TRUE]
      [] OTHER -> NoMeta

\* the loop body of step 1: the last preview, else the source, else ''
BestUrl(mediaMeta) ==
    LET fromP == IF Len(mediaMeta.p) > 0 THEN mediaMeta.p[Len(mediaMeta.p)] ELSE NoUrl
    IN  IF fromP # NoUrl THEN fromP ELSE mediaMeta.s

\* the loop of step 1 over gallery_data.items
GalleryUrls(items) ==
    LET best == [i \in 1..Len(items) |->
                    IF media_metadata(items[i]).present
                    THEN BestUrl(media_metadata(items[i])) ELSE NoUrl]
    IN  SelectSeq(best, LAMBDA u : u # NoUrl)

\* urls and extracted after each if of extractMediaUrls; steps records which
\* of them pushed
ExtractStart == [urls |-> << >>, extracted |-> FALSE, steps |-> {}]
Push(s, u, k) == [urls |-> Append(s.urls, u), extracted |-> TRUE, steps |-> s.steps \cup {k}]

StepGallery(p, s) ==
    IF p.items # << >>
    THEN LET urls == GalleryUrls(p.items)
         IN  [urls |-> urls, extracted |-> Len(urls) > 0,
              steps |-> IF Len(urls) > 0 THEN {1} ELSE {}]
    ELSE s

StepRedditVideo(p, s) ==
    IF /\ ~s.extracted
       /\ p.video # NoUrl
       /\ includes(p.video, ".mp4")
       /\ ~includes(p.video, "DASHPlaylist.mpd")
       /\ ~includes(p.video, ".m3u8")
    THEN Push(s, p.video, 2) ELSE s

StepVideoPreview(p, s) ==
    IF ~s.extracted /\ p.previewVideo # NoUrl THEN Push(s, p.previewVideo, 3) ELSE s

\* mutant: step 4 without the !extracted test
StepDirectLinkAlways(p, s) ==
    IF /\ p.url # NoUrl
       /\ \E x \in {".jpg", ".jpeg", ".png", ".gif", ".webp"} :
            endsWith(toLowerCase(p.url), x)
    THEN Push(s, p.url, 4) ELSE s

StepDirectLink(p, s) ==
    IF /\ ~s.extracted
       /\ p.url # NoUrl
       /\ \E x \in {".jpg", ".jpeg", ".png", ".gif", ".webp"} :
            endsWith(toLowerCase(p.url), x)
    THEN Push(s, p.url, 4) ELSE s

StepOEmbed(p, s) ==
    IF /\ ~s.extracted
       /\ p.thumbnail # NoUrl
       /\ \E x \in {".jpg", ".png", ".jpeg"} : includes(toLowerCase(p.thumbnail), x)
    THEN Push(s, p.thumbnail, 5) ELSE s

StepPreviewImage(p, s) ==
    IF ~s.extracted /\ p.previewImage # NoUrl THEN Push(s, p.previewImage, 6) ELSE s

ExtractChain(p) ==
    StepPreviewImage(p, StepOEmbed(p, StepDirectLink(p,
        StepVideoPreview(p, StepRedditVideo(p, StepGallery(p, ExtractStart))))))

extractMediaUrls(postDetail) == ExtractChain(postDetail).urls


\* validMediaUrls.slice(0, 20)
MaxMediaUrls == 20

\* isAllowedImageDomain: the hostname is one of allowedDomains or ends with
\* '.' + one of them
allowedDomains == {"i.redd.it", "preview.redd.it", "external-preview.redd.it",
                   "i.imgur.com", "imgur.com", "v.redd.it"}
\* the allowed domains d for which the hostname ends with '.' + d
DomainsAbove(hostname) == IF hostname = "i.imgur.com" THEN {"imgur.com"} ELSE {}
\* new URL(url) does not throw
IsUrl(u) == Len(u) >= 2 /\ u[1] = "https://"
isAllowedImageDomain(u) ==
    /\ IsUrl(u)
    /\ \/ u[2] \in allowedDomains
       \/ DomainsAbove(u[2]) # {}

\* the block after an extraction, the same for the post and for its crosspost
\* parent: a post flagged as video whose first URL does not end with '.mp4',
\* or that has no URL, is marked, takes its preview image, or ends the
\* callback with null
VideoStage(data, ex, marked) ==
    LET isVideoPost == data.is_video = TRUE
        usedNonVideoUrl == Len(ex.urls) > 0 /\ ~endsWith(ex.urls[1], ".mp4")
        extractionFailedForVideo == isVideoPost /\ Len(ex.urls) = 0
    IN  IF isVideoPost /\ (usedNonVideoUrl \/ extractionFailedForVideo)
        THEN IF extractionFailedForVideo /\ data.previewImage # NoUrl
             THEN [returned |-> FALSE, mediaUrls |-> << data.previewImage >>,
                   isUnplayableVideo |-> TRUE, steps |-> {6}]
             ELSE IF extractionFailedForVideo
             THEN [returned |-> TRUE, mediaUrls |-> << >>,
                   isUnplayableVideo |-> marked, steps |-> {}]
             ELSE [returned |-> FALSE, mediaUrls |-> ex.urls,
                   isUnplayableVideo |-> TRUE, steps |-> ex.steps]
        ELSE [returned |-> FALSE, mediaUrls |-> ex.urls,
              isUnplayableVideo |-> marked, steps |-> ex.steps]

\* the callback up to the construction of the post: extraction on the post,
\* then, when it gave nothing, on crosspost_parent_list[0]; getPosts also
\* asks that the parent's id differ from the post's (checkId)
MapStages(postData, checkId) ==
    LET own == VideoStage(postData, ExtractChain(postData), FALSE)
        list == postData.crosspost_parent_list
    IN  IF own.returned THEN own @@ [from |-> "self"]
        ELSE IF /\ Len(own.mediaUrls) = 0
                /\ Len(list) > 0
                /\ (checkId => list[1].id # postData.id)
        THEN VideoStage(list[1], ExtractChain(list[1]), own.isUnplayableVideo)
                @@ [from |-> "parent"]
        ELSE own @@ [from |-> "self"]

RedditPost(postData, mediaUrls, isUnplayableVideo, st) ==
    [kept |-> TRUE, mediaUrls |-> mediaUrls, postId |-> postData.id,
     isUnplayableVideoFormat |-> isUnplayableVideo, steps |-> st.steps, from |-> st.from]

\* mutant: the list is not cut
sliceAll(s, n) == s

slice(s, n) == SubSeq(s, 1, IF Len(s) < n THEN Len(s) ELSE n)

\* mutant: the post is built without the test on validMediaUrls.length
RouteMapChildNoTest(postData) ==
    LET st == MapStages(postData, FALSE)
        validMediaUrls == SelectSeq(st.mediaUrls, isAllowedImageDomain)
    IN  IF st.returned THEN Absent
        ELSE RedditPost(postData, slice(validMediaUrls, MaxMediaUrls), st.isUnplayableVideo, st)

\* the map callback of GET (route.ts)
RouteMapChild(postData) ==
    LET st == MapStages(postData, FALSE)
        validMediaUrls == SelectSeq(st.mediaUrls, isAllowedImageDomain)
    IN  IF st.returned THEN Absent
        ELSE IF Len(validMediaUrls) > 0
        THEN RedditPost(postData, slice(validMediaUrls, MaxMediaUrls), st.isUnplayableVideo, st)
        ELSE Absent

\* the map callback of getPosts (services/reddit.ts)
GetPostsMapChild(postData) ==
    LET st == MapStages(postData, TRUE)
    IN  IF st.returned THEN Absent
        ELSE IF Len(st.mediaUrls) > 0
        THEN RedditPost(postData, st.mediaUrls, st.isUnplayableVideo, st)
        ELSE Absent


\* the raw posts mapped: gallery item lists up to MaxGalleryItems, every
\* combination of the media fields, crossposts of a few parents, and a gallery
\* of two items more than a post may carry URLs
RawPosts ==
    LET GalleryItems == UNION { [1..k -> MediaIds] : k \in 0..MaxGalleryItems }
        ParentPosts ==
            { [EmptyPost EXCEPT !.id = i, !.is_video = v, !.video = vid,
                                !.previewImage = img] :
                i \in {"p0", "p1"}, v \in BOOLEAN,
                vid \in {NoUrl, Url.VideoFile, Url.VideoManifest},
                img \in {NoUrl, Url.PreviewSource} }
        OwnPosts ==
            [id : {"p1"}, is_video : BOOLEAN, items : GalleryItems,
             video : {NoUrl, Url.VideoFile, Url.VideoFilePlain, Url.VideoManifest},
             previewVideo : {NoUrl, Url.PreviewClip},
             url : {Url.ImageLink, Url.ImageLinkUpper, Url.ImageLinkElsewhere,
                    Url.PageLink, Url.RelativeLink},
             thumbnail : {NoUrl, Url.Thumbnail},
             previewImage : {NoUrl, Url.PreviewSource},
             crosspost_parent_list : { << >> }]
        CrossPosts ==
            { [EmptyPost EXCEPT !.is_video = v, !.url = u,
                                !.crosspost_parent_list = << q >>] :
                v \in BOOLEAN, u \in {Url.PageLink, Url.ImageLink}, q \in ParentPosts }
        LongGallery ==
            [EmptyPost EXCEPT !.url = Url.PageLink,
                              !.items = [i \in 1..(MaxMediaUrls + 2) |->
                                            IF i = 2 THEN "m4" ELSE "m1"]]
    IN  OwnPosts \cup CrossPosts \cup {LongGallery}

InitMediaPosts ==
    /\ child \in RawPosts
    /\ mapped = NotMapped

\* GET maps the child
MapInRoute ==
    /\ mapped.by = "none"
    /\ mapped' = [by |-> "route", post |-> RouteMapChild(child),
                  extracted |-> ExtractChain(child)]
    /\ UNCHANGED << child, pageVars, ilVars, rateVars, routeVars, cacheVars, kvVars >>

\* getPosts maps the child
MapInGetPosts ==
    /\ mapped.by = "none"
    /\ mapped' = [by |-> "getPosts", post |-> GetPostsMapChild(child),
                  extracted |-> ExtractChain(child)]
    /\ UNCHANGED << child, pageVars, ilVars, rateVars, routeVars, cacheVars, kvVars >>

NextMedia == MapInRoute \/ MapInGetPosts

InitWithPosts ==
    InitPage /\ InitInterleave /\ InitRate /\ InitRoute /\ InitCache /\ InitKv
        /\ InitMediaPosts

SpecMedia == InitWithPosts /\ [][NextMedia]_vars


-----------------------------------------------------------------------------
(* Properties of the post mapping (specification SpecMedia) *)

\* a direct video file: names an .mp4 and no streaming manifest
Playable(u) ==
    /\ includes(u, ".mp4")
    /\ ~includes(u, "DASHPlaylist.mpd")
    /\ ~includes(u, ".m3u8")

\* the URLs a raw post carries, its gallery's and its crosspost parent's too
OwnUrlsOf(p) ==
    ({p.video, p.previewVideo, p.url, p.thumbnail, p.previewImage}
        \cup UNION { {media_metadata(m).s} \cup SeqToSet(media_metadata(m).p) :
                        m \in SeqToSet(p.items) }) \ {NoUrl}
UrlsOf(p) ==
    OwnUrlsOf(p) \cup UNION { OwnUrlsOf(p.crosspost_parent_list[i]) :
                                i \in 1..Len(p.crosspost_parent_list) }

\* C21: a raw post whose preview image source URL is populated is never
\* mapped to absent, in GET and in getPosts: the post is kept with at least
\* one media URL.
C21_PreviewNeverAbsent ==
    (mapped.by # "none" /\ child.previewImage # NoUrl)
        => (mapped.post.kept /\ Len(mapped.post.mediaUrls) >= 1)

\* C22: every post the mapping produces has a non-empty mediaUrls, each entry
\* a URL of the raw post (for GET one of an allowed domain); a candidate with
\* no such URL is dropped.
C22_NonEmptyMediaUrls ==
    (mapped.by # "none" /\ mapped.post.kept)
        => /\ Len(mapped.post.mediaUrls) >= 1
           /\ \A i \in 1..Len(mapped.post.mediaUrls) :
                /\ mapped.post.mediaUrls[i] \in UrlsOf(child)
                /\ mapped.by = "route" => isAllowedImageDomain(mapped.post.mediaUrls[i])

\* GET dropped a candidate whose extraction gave URLs none of which passed
\* the domain filter
C22_Witness ==
    /\ mapped.by = "route"
    /\ ~mapped.post.kept
    /\ Len(mapped.extracted.urls) > 0
    /\ \A i \in 1..Len(mapped.extracted.urls) :
            ~isAllowedImageDomain(mapped.extracted.urls[i])

\* C23: a produced post with isUnplayableVideoFormat = true comes from a raw
\* item flagged as video and holds exactly one media URL, which is not a
\* directly playable video URL.
C23_UnplayableIsVideoPreview ==
    (mapped.by # "none" /\ mapped.post.kept /\ mapped.post.isUnplayableVideoFormat)
        => /\ child.is_video
           /\ Len(mapped.post.mediaUrls) = 1
           /\ ~Playable(mapped.post.mediaUrls[1])

\* C24: a produced post has isUnplayableVideoFormat = true exactly when the
\* raw item was flagged as video and its URL was not supplied by step 2 (the
\* native video).
C24_ClassificationExact ==
    (mapped.by # "none" /\ mapped.post.kept)
        => (mapped.post.isUnplayableVideoFormat
                <=> (child.is_video /\ 2 \notin mapped.post.steps))


\* the chain as the steps are described: what each step would give on its own
ImageExtensions == {".jpg", ".jpeg", ".png", ".gif", ".webp"}
ThumbnailExtensions == {".jpg", ".jpeg", ".png"}
\* the representation of a gallery item: its highest-resolution preview, else
\* its source, else none
Representation(mediaId) ==
    LET meta == media_metadata(mediaId)
    IN  IF ~meta.present THEN NoUrl
        ELSE IF Len(meta.p) > 0 /\ meta.p[Len(meta.p)] # NoUrl THEN meta.p[Len(meta.p)]
        ELSE meta.s
RECURSIVE RepresentationsInOrder(_)
RepresentationsInOrder(items) ==
    IF items = << >> THEN << >>
    ELSE (IF Representation(Head(items)) # NoUrl
          THEN << Representation(Head(items)) >> ELSE << >>)
         \o RepresentationsInOrder(Tail(items))
StepGives(p, k) ==
    CASE k = 1 -> RepresentationsInOrder(p.items)
      [] k = 2 -> IF p.video # NoUrl /\ Playable(p.video) THEN << p.video >> ELSE << >>
      [] k = 3 -> IF p.previewVideo # NoUrl THEN << p.previewVideo >> ELSE << >>
      [] k = 4 -> IF p.url # NoUrl /\ toLowerCase(p.url)[Len(p.url)] \in ImageExtensions
                  THEN << p.url >> ELSE << >>
      [] k = 5 -> IF /\ p.thumbnail # NoUrl
                     /\ SeqToSet(toLowerCase(p.thumbnail)) \cap ThumbnailExtensions # {}
                  THEN << p.thumbnail >> ELSE << >>
      [] k = 6 -> IF p.previewImage # NoUrl THEN << p.previewImage >> ELSE << >>
      [] OTHER -> << >>
\* the first step that gives a URL, 0 when none does
FirstStep(p) ==
    IF \E k \in 1..6 : StepGives(p, k) # << >>
    THEN CHOOSE k \in 1..6 : /\ StepGives(p, k) # << >>
                             /\ \A j \in 1..(k - 1) : StepGives(p, j) = << >>
    ELSE 0

\* C30 (amended): the URLs extractMediaUrls returns are those of exactly one
\* step, the first of gallery, native video file, video preview, direct image
\* link, embed thumbnail, preview image that gives a URL; a gallery gives one
\* URL for each item that has a preview or source representation, in listed
\* order.
C30_PriorityChain ==
    mapped.by # "none"
        => /\ mapped.extracted.urls = StepGives(child, FirstStep(child))
           /\ mapped.extracted.steps =
                (IF FirstStep(child) = 0 THEN {} ELSE {FirstStep(child)})

\* the gallery step gave the URLs of a two-item gallery although the post
\* also has a native video file, a direct image link and a preview image
C30_Witness ==
    /\ mapped.by # "none"
    /\ mapped.extracted.steps = {1}
    /\ mapped.extracted.urls = << Url.GalleryHigh, Url.GallerySource2 >>
    /\ StepGives(child, 2) # << >>
    /\ StepGives(child, 4) # << >>
    /\ StepGives(child, 6) # << >>

\* C30: as above, and a gallery contributes one URL per item in listed order.
C30_OneUrlPerItem ==
    mapped.by # "none"
        => /\ mapped.extracted.urls = StepGives(child, FirstStep(child))
           /\ mapped.extracted.steps =
                (IF FirstStep(child) = 0 THEN {} ELSE {FirstStep(child)})
           /\ 1 \in mapped.extracted.steps
                => Len(mapped.extracted.urls) = Len(child.items)


\* C31: when steps 1 to 6 give no URL for a raw item that carries a crosspost
\* parent, the chain is applied to the parent: the post is kept, with the
\* parent's URLs, exactly when the parent yields a URL, whether the item is
\* flagged as video or not.
C31_CrosspostFallback ==
    (mapped.by # "none" /\ mapped.extracted.urls = << >>
        /\ Len(child.crosspost_parent_list) > 0)
        => LET parentUrls == extractMediaUrls(child.crosspost_parent_list[1])
           IN  /\ mapped.post.kept <=> parentUrls # << >>
               /\ mapped.post.kept => mapped.post.mediaUrls = parentUrls


\* a well-formed URL on an allowed media domain or on a subdomain of one
OnAllowedDomain(u) ==
    /\ Len(u) >= 2
    /\ u[1] = "https://"
    /\ \E d \in allowedDomains : u[2] = d \/ d \in DomainsAbove(u[2])
RECURSIVE SurvivorsInOrder(_)
SurvivorsInOrder(urls) ==
    IF urls = << >> THEN << >>
    ELSE (IF OnAllowedDomain(Head(urls)) THEN << Head(urls) >> ELSE << >>)
         \o SurvivorsInOrder(Tail(urls))
\* the URLs the mapping had before the filter: the post's, or its parent's
SourceUrls ==
    IF mapped.post.from = "parent"
    THEN extractMediaUrls(child.crosspost_parent_list[1])
    ELSE mapped.extracted.urls

\* C39: every URL in the mediaUrls of a post GET returns is well formed and
\* on an allowed media domain; mediaUrls has between 1 and 20 entries, the
\* URLs that survive the filter in their extraction order.
C39_AllowedUrlsInOrder ==
    (mapped.by = "route" /\ mapped.post.kept)
        => /\ Len(mapped.post.mediaUrls) >= 1
           /\ Len(mapped.post.mediaUrls) <= MaxMediaUrls
           /\ \A i \in 1..Len(mapped.post.mediaUrls) :
                /\ OnAllowedDomain(mapped.post.mediaUrls[i])
                /\ mapped.post.mediaUrls[i] = SurvivorsInOrder(SourceUrls)[i]
           /\ Len(SurvivorsInOrder(SourceUrls)) <= MaxMediaUrls
                => mapped.post.mediaUrls = SurvivorsInOrder(SourceUrls)

\* GET returned the first 20 of the URLs of a gallery of 22 items one of which
\* the filter removed
C39_Witness ==
    /\ mapped.by = "route" /\ mapped.post.kept
    /\ Len(SurvivorsInOrder(mapped.extracted.urls)) > MaxMediaUrls
    /\ Len(mapped.post.mediaUrls) = MaxMediaUrls
    /\ \E i \in 1..Len(mapped.extracted.urls) :
            ~OnAllowedDomain(mapped.extracted.urls[i])


-----------------------------------------------------------------------------
(* Long channel lists: the page up to the point where the requests of a call
   are issued (specification SpecChannels) *)

\* validateSubreddits: 'Maximum 10 subreddits allowed'
MaxSubreddits == 10

\* validateSubreddits (lib/validation) on the names of the input: it throws on
\* an empty list, on more than MaxSubreddits names and on a name
\* subredditSchema rejects; no handler of the page calls it
validateSubreddits(subreddits) ==
    IF Len(subreddits) = 0 THEN [threw |-> "At least one subreddit is required"]
    ELSE IF Len(subreddits) > MaxSubreddits THEN [threw |-> "Maximum 10 subreddits allowed"]
    ELSE IF \E i \in 1..Len(subreddits) : subreddits[i] \notin ValidNames
    THEN [threw |-> "Invalid subreddit"]
    ELSE [threw |-> "none"]

\* the lists typed: none, one channel, ten, eleven, ten and an invalid name
ChannelInputs ==
    LET TenChannels == << "a", "b", "c", "d", "e", "f", "g", "h", "i", "j" >>
    IN  { << >>, << "a" >>, TenChannels, TenChannels \o << "k" >>,
          << "x!" >> \o TenChannels }

NextChannels ==
    \/ \E l \in ChannelInputs : SetSubredditInput(l)
    \/ \E s \in SortTypes : SetSortType(s)
    \/ \E t \in TimeFrames : SetTimeFrame(t)
    \/ FetchInitialPosts

SpecChannels == Init /\ [][NextChannels]_vars

\* C29: a call never fetches more than 10 channels: a channel list
\* validateSubreddits rejects for its length has no request issued.
C29_AtMostTenChannels ==
    call.kind # "none"
        => /\ Len(call.promises) <= MaxSubreddits
           /\ validateSubreddits(call.subs).threw # "Maximum 10 subreddits allowed"


-----------------------------------------------------------------------------
(* Aggregation sessions that run to their end (specification SpecSession) *)

\* the lists typed: one channel, a channel without posts and one with, a valid
\* and an invalid name
SessionInputs == { << "a" >>, << "c", "a" >>, << "a", "x!" >> }

\* the i-th request of the call in flight settles, either way
SettleSome(i) ==
    \/ \E nxt \in CursorValues : SettleFulfil(i, nxt)
    \/ SettleReject(i)

NextSession ==
    \/ \E l \in SessionInputs : SetSubredditInput(l)
    \/ FetchInitialPosts
    \/ LoadMorePosts
    \/ \E i \in 1..2, nxt \in CursorValues : SettleFulfil(i, nxt)
    \/ \E i \in 1..2 : SettleReject(i)
    \/ Complete

\* every channel fetch settles, and the continuation after the await runs
SessionFairness ==
    /\ \A i \in 1..2 : WF_vars(SettleSome(i))
    /\ WF_vars(Complete)

SpecSession == Init /\ [][NextSession]_vars /\ SessionFairness

SessionSettled == lastResult.outcome = "returned" /\ RejectedAt(lastResult) = {}
SessionPartiallyFailed == lastResult.outcome = "returned" /\ RejectedAt(lastResult) # {}
SessionAllFailed == lastResult.outcome = "threw" /\ FulfilledAt(lastResult) = {}

\* C32: an aggregation started by fetchInitialPosts or loadMorePosts, in
\* fetching (isLoading = true), eventually ends in exactly one of settled,
\* partially failed or all failed with isLoading = false again, provided every
\* channel fetch settles; it never remains in fetching.
C32_SessionEnds ==
    isLoading ~> (/\ ~isLoading
                  /\ call.kind = "none"
                  /\ \/ SessionSettled /\ ~SessionPartiallyFailed /\ ~SessionAllFailed
                     \/ SessionPartiallyFailed /\ ~SessionSettled /\ ~SessionAllFailed
                     \/ SessionAllFailed /\ ~SessionSettled /\ ~SessionPartiallyFailed)

\* a load-more of two channels ended partially failed and the page is idle
C32_Witness ==
    /\ ~isLoading
    /\ lastResult.outcome = "returned"
    /\ lastResult.kind = "more"
    /\ SessionPartiallyFailed

\* a load-more call is issued by this step
LoadMoreStarts == call'.kind = "more" /\ (call.kind # "more" \/ lastResult' # lastResult)

-----------------------------------------------------------------------------
(* The page and its response cache as time passes (specification
   SpecPageClock) *)

\* the list typed: one channel
ClockInputs == { << "a" >> }

NextPageClock ==
    \/ \E l \in ClockInputs : SetSubredditInput(l)
    \/ FetchInitialPosts
    \/ LoadMorePosts
    \/ \E nxt \in CursorValues : SettleFulfil(1, nxt)
    \/ SettleReject(1)
    \/ Complete
    \/ Tick

SpecPageClock == Init /\ [][NextPageClock]_vars

\* C34: a response stored on a miss is served from the cache only until its
\* TTL has elapsed: every request that a call answers from the cache finds an
\* entry stored less than one TTL ago, an older page is fetched again.
C34_NoHitPastTtl ==
    [][(call.kind = "none" /\ call'.kind # "none")
            => \A i \in DOMAIN call'.promises :
                    call'.promises[i].hit
                        => now - apiCache[call'.promises[i].key].storedAt < DefaultTTL
      ]_vars



-----------------------------------------------------------------------------
(* The page of src/app/page.tsx: no response cache, and a load-more filter
   that tests the cursor against null only (specification SpecPageTsx) *)

\* fetchInitialPosts of page.tsx: performFetch calls getPosts for every channel
FetchInitialPostsPageTsx ==
    /\ ~isLoading
    /\ LET subsToUse == subredditInput
       IN  IF Len(subsToUse) = 0
           THEN /\ error' = "empty"
                /\ posts' = <<>>
                /\ fetchInitiated' = FALSE
                /\ hasMore' = FALSE
                /\ UNCHANGED << isLoading, afterTokens, call, lastResult >>
           ELSE IF ~(\A i \in DOMAIN subsToUse : isValidSubreddit(subsToUse[i]))
           THEN /\ error' = "fetch"
                /\ posts' = <<>>
                /\ afterTokens' = EmptyTokens
                /\ hasMore' = FALSE
                /\ fetchInitiated' = TRUE
                /\ isLoading' = FALSE
                /\ call' = NoCall
                /\ lastResult' = InvalidNameResult("initial", subsToUse, EmptyTokens)
           ELSE /\ isLoading' = TRUE
                /\ error' = "none"
                /\ posts' = <<>>
                /\ afterTokens' = EmptyTokens
                /\ hasMore' = TRUE
                /\ fetchInitiated' = TRUE
                /\ call' = StartCall("initial", << >>, subsToUse, EmptyTokens)
                /\ lastResult' = NoResult
    /\ UNCHANGED << subredditInput, sortType, timeFrame, apiCache >>
    /\ UNCHANGED notPageVars

\* subsToUse.filter(sub => afterTokens[sub] !== null)
SubsWithPotentialMorePageTsx(subs, tokens) ==
    SelectSeq(subs, LAMBDA sub : tokens[sub] # Null)

\* loadMorePosts of page.tsx
LoadMorePostsPageTsx ==
    /\ LET subsToUse == subredditInput
           subsWithPotentialMore == SubsWithPotentialMorePageTsx(subsToUse, afterTokens)
       IN  IF isLoading \/ ~hasMore \/ ~fetchInitiated
           THEN UNCHANGED << posts, error, isLoading, hasMore, fetchInitiated,
                             afterTokens, call, lastResult >>
           ELSE IF Len(subsToUse) = 0 \/ Len(subsWithPotentialMore) = 0
           THEN /\ hasMore' = FALSE
                /\ UNCHANGED << posts, error, isLoading, fetchInitiated,
                                afterTokens, call, lastResult >>
           ELSE IF ~(\A i \in DOMAIN subsWithPotentialMore :
                        isValidSubreddit(subsWithPotentialMore[i]))
           THEN /\ error' = "loadmore"
                /\ hasMore' = FALSE
                /\ lastResult' = InvalidNameResult("more", subsWithPotentialMore, afterTokens)
                /\ UNCHANGED << posts, isLoading, fetchInitiated, afterTokens, call >>
           ELSE /\ isLoading' = TRUE
                /\ error' = "none"
                /\ call' = StartCall("more", << >>, subsWithPotentialMore, afterTokens)
                /\ lastResult' = NoResult
                /\ UNCHANGED << posts, hasMore, fetchInitiated, afterTokens >>
    /\ UNCHANGED << subredditInput, sortType, timeFrame, apiCache >>
    /\ UNCHANGED notPageVars

\* getPosts(...) of the i-th channel resolves; nothing is cached
SettleFulfilPageTsx(i, nxt) ==
    /\ call.kind # "none"
    /\ i \in DOMAIN call.promises
    /\ IsPending(call.promises[i])
    /\ nxt \in NextCursors(call.promises[i].param)
    /\ LET p == call.promises[i]
       IN  call' = [call EXCEPT !.promises[i] =
                        [p EXCEPT !.status = "fulfilled",
                                  !.posts = PagePosts(p.sub, p.param),
                                  !.after = nxt]]
    /\ UNCHANGED << subredditInput, sortType, timeFrame, posts, error, isLoading,
                    hasMore, fetchInitiated, afterTokens, apiCache, lastResult >>
    /\ UNCHANGED notPageVars

NextPageTsx ==
    \/ \E l \in SessionInputs : SetSubredditInput(l)
    \/ FetchInitialPostsPageTsx
    \/ LoadMorePostsPageTsx
    \/ \E i \in 1..2, nxt \in CursorValues : SettleFulfilPageTsx(i, nxt)
    \/ \E i \in 1..2 : SettleReject(i)
    \/ Complete

SpecPageTsx == Init /\ [][NextPageTsx]_vars

\* C36: loadMorePosts fetches only channels whose cursor is a non-null token:
\* no request of a load-more call is for a channel whose cursor is null or
\* that has no cursor entry, so none is sent without a cursor.
C36_LoadMoreOnlyTokens ==
    call.kind = "more"
        => \A i \in DOMAIN call.subs :
                /\ call.tokens[call.subs[i]] \in Tokens
                /\ call.promises[i].param \in Tokens


-----------------------------------------------------------------------------
(* KVRateLimiter.check: two checks in flight, every await a point where the
   other check, the clock or a store failure can come in (specification
   SpecKV) *)

KvIdentities == {"ip1"}

\* kv.get(fullKey): the entry, or null once its px has run out
KvGetValue(st, fullKey, t) ==
    IF fullKey \in DOMAIN st /\ t < st[fullKey].expiresAt
    THEN [count |-> st[fullKey].count, resetTime |-> st[fullKey].resetTime]
    ELSE NoKvEntry

\* mutant: the store adds one to the count it holds
kvSetValueIncrement(st, fullKey, t, value) ==
    IF KvGetValue(st, fullKey, t) # NoKvEntry /\ value.count > 1
    THEN [count |-> KvGetValue(st, fullKey, t).count + 1, resetTime |-> value.resetTime]
    ELSE [count |-> value.count, resetTime |-> value.resetTime]

\* kv.set(fullKey, value, {px}): the value replaces whatever the key holds
kvSetValue(st, fullKey, t, value) ==
    [count |-> value.count, resetTime |-> value.resetTime]

\* mutant: the catch block denies
FallbackDeny(config, t) ==
    [success |-> FALSE, remaining |-> 0, resetTime |-> t + config.windowMs]

\* catch (error): allow request on error
Fallback(config, t) ==
    [success |-> TRUE, remaining |-> config.maxRequests - 1,
     resetTime |-> t + config.windowMs]

\* what the check does with the value kv.get returned: the set it sends, or
\* the denial
AfterGet(current, config, t) ==
    IF current = NoKvEntry \/ t > current.resetTime
    THEN [pc |-> "set",
          toWrite |-> [count |-> 1, resetTime |-> t + config.windowMs,
                       px |-> config.windowMs],
          result |-> NoRateLimit]
    ELSE IF current.count >= config.maxRequests
    THEN [pc |-> "done", toWrite |-> NoKvWrite,
          result |-> [success |-> FALSE, remaining |-> 0,
                      resetTime |-> current.resetTime]]
    ELSE [pc |-> "set",
          toWrite |-> [count |-> current.count + 1, resetTime |-> current.resetTime,
                       px |-> current.resetTime - t],
          result |-> NoRateLimit]

\* the checks allowed under resetTime r so far
AllowedUnder(r) == IF r \in DOMAIN kvLog.allowed THEN kvLog.allowed[r] ELSE 0
LogAllowed(r) ==
    [kvLog EXCEPT !.allowed =
        [x \in DOMAIN kvLog.allowed \cup {r} |-> IF x = r THEN AllowedUnder(r) + 1
                                                 ELSE kvLog.allowed[x]]]

\* check(key, config) is called: now = Date.now(), then kv.get is sent
KvBegin(c, key) ==
    /\ kvChecks[c].pc \in {"idle", "done"}
    /\ kvLog.begun < MaxKvChecks
    /\ kvChecks' = [d \in CheckIds |->
                      IF d = c
                      THEN [IdleCheck EXCEPT !.pc = "get", !.key = key, !.at = now]
                      ELSE [kvChecks[d] EXCEPT !.raced = FALSE]]
    /\ kvLog' = [kvLog EXCEPT !.begun = @ + 1]
    /\ UNCHANGED << kvStore, pageVars, ilVars, rateVars, routeVars, cacheVars, mediaVars >>

\* kv.get resolves: the check decides from the value read
KvGet(c) ==
    /\ kvChecks[c].pc = "get"
    /\ LET config == rateLimitConfigs.reddit
           current == KvGetValue(kvStore, kvChecks[c].key, now)
           next == AfterGet(current, config, kvChecks[c].at)
           others == {d \in CheckIds \ {c} :
                        /\ kvChecks[d].pc = "set"
                        /\ kvChecks[d].key = kvChecks[c].key
                        /\ kvChecks[d].current = current
                        /\ next.pc = "set"
                        /\ kvChecks[d].opened = (next.toWrite.count = 1)}
       IN  kvChecks' = [d \in CheckIds |->
                          IF d = c
                          THEN [kvChecks[c] EXCEPT !.pc = next.pc, !.current = current,
                                                   !.toWrite = next.toWrite,
                                                   !.result = next.result,
                                                   !.opened = (next.toWrite.count = 1),
                                                   !.raced = others # {}]
                          ELSE IF d \in others
                          THEN [kvChecks[d] EXCEPT !.raced = TRUE]
                          ELSE kvChecks[d]]
    /\ UNCHANGED << kvStore, kvLog, pageVars, ilVars, rateVars, routeVars, cacheVars,
                    mediaVars >>

\* kv.set resolves (the store refuses a px that is not positive, which throws)
KvSet(c) ==
    /\ kvChecks[c].pc = "set"
    /\ LET config == rateLimitConfigs.reddit
           w == kvChecks[c].toWrite
           value == kvSetValue(kvStore, kvChecks[c].key, now, w)
       IN  IF w.px <= 0
           THEN /\ kvChecks' = [kvChecks EXCEPT ![c].pc = "done", ![c].failed = TRUE,
                                                ![c].at = -1, ![c].toWrite = NoKvWrite,
                                                ![c].result = Fallback(config, now)]
                /\ UNCHANGED << kvStore, kvLog >>
           ELSE /\ kvStore' = [k \in DOMAIN kvStore \cup {kvChecks[c].key} |->
                                IF k = kvChecks[c].key
                                THEN [count |-> value.count,
                                      resetTime |-> value.resetTime,
                                      expiresAt |-> now + w.px]
                                ELSE kvStore[k]]
                /\ kvChecks' = [kvChecks EXCEPT
                                  ![c].pc = "done", ![c].wrote = value,
                                  ![c].at = -1, ![c].toWrite = NoKvWrite,
                                  ![c].result = [success |-> TRUE,
                                                 remaining |-> config.maxRequests - w.count,
                                                 resetTime |-> w.resetTime]]
                /\ kvLog' = LogAllowed(w.resetTime)
    /\ UNCHANGED << pageVars, ilVars, rateVars, routeVars, cacheVars, mediaVars >>

\* the store operation the check awaits throws (outage, timeout): catch
KvFail(c) ==
    /\ kvChecks[c].pc \in {"get", "set"}
    /\ kvChecks' = [kvChecks EXCEPT ![c].pc = "done", ![c].failed = TRUE,
                                    ![c].at = -1, ![c].toWrite = NoKvWrite,
                                    ![c].result = Fallback(rateLimitConfigs.reddit, now)]
    /\ UNCHANGED << kvStore, kvLog, pageVars, ilVars, rateVars, routeVars, cacheVars,
                    mediaVars >>

\* time passes; the store drops the keys whose px has run out
KvTick ==
    /\ now < MaxKvTime
    /\ now' = now + 1
    /\ kvStore' = [k \in {x \in DOMAIN kvStore : now + 1 < kvStore[x].expiresAt} |->
                        kvStore[k]]
    /\ UNCHANGED << kvChecks, kvLog, store, lastCheck, windowLog, pageVars, ilVars,
                    routeVars, cacheVars, mediaVars >>

NextKV ==
    \/ \E c \in CheckIds, key \in KvIdentities : KvBegin(c, key)
    \/ \E c \in CheckIds : KvGet(c)
    \/ \E c \in CheckIds : KvSet(c)
    \/ \E c \in CheckIds : KvFail(c)
    \/ KvTick

SpecKV == Init /\ [][NextKV]_vars

\* C33: two checks of one identity that both read before either wrote, and
\* that both open a window or both count in the one read, are decided from
\* the same observed count: both are allowed with the same remaining and
\* write the same count (1, or the count read plus one), so one increment is lost
\* (and the checks allowed under one resetTime can exceed maxRequests).
C33_LostIncrement ==
    \A c \in CheckIds : \A d \in CheckIds \ {c} :
        (/\ kvChecks[c].raced /\ kvChecks[d].raced
         /\ kvChecks[c].pc = "done" /\ kvChecks[d].pc = "done"
         /\ ~kvChecks[c].failed /\ ~kvChecks[d].failed)
            => /\ kvChecks[c].key = kvChecks[d].key
               /\ kvChecks[c].current = kvChecks[d].current
               /\ kvChecks[c].result.success /\ kvChecks[d].result.success
               /\ kvChecks[c].result.remaining = kvChecks[d].result.remaining
               /\ kvChecks[c].wrote.count = kvChecks[d].wrote.count
               /\ kvChecks[c].opened = kvChecks[d].opened
               /\ kvChecks[c].wrote.count
                    = (IF kvChecks[c].opened THEN 1 ELSE kvChecks[c].current.count + 1)

\* two interleaved checks were both allowed, and more checks than maxRequests
\* have been allowed under their resetTime
C33_Witness ==
    /\ \A c \in CheckIds : /\ kvChecks[c].raced /\ kvChecks[c].pc = "done"
                           /\ ~kvChecks[c].failed
    /\ \E c \in CheckIds :
            AllowedUnder(kvChecks[c].result.resetTime)
                > rateLimitConfigs.reddit.maxRequests

\* C38: a check during which a KV store operation failed returns success
\* with remaining = maxRequests - 1: a store outage never denies.
C38_FailOpen ==
    \A c \in CheckIds :
        (kvChecks[c].pc = "done" /\ kvChecks[c].failed)
            => /\ kvChecks[c].result.success
               /\ kvChecks[c].result.remaining = rateLimitConfigs.reddit.maxRequests - 1

\* the store failed during a check made when the identity had used up its
\* window
C38_Witness ==
    \E c \in CheckIds :
        /\ kvChecks[c].pc = "done" /\ kvChecks[c].failed
        /\ kvChecks[c].result.success
        /\ KvGetValue(kvStore, kvChecks[c].key, now).count
                >= rateLimitConfigs.reddit.maxRequests


====
